---------------------------- MODULE Spec2Model ----------------------------
(***************************************************************************)
(* A model of BHD.py, the PREVENT-AD download script.                       *)
(*                                                                         *)
(*   Spec      get_file / process_api_get driven by an arbitrary caller,   *)
(*             with a server whose resources change, transport failures,   *)
(*             HTTP error statuses and process kills.                      *)
(*   SpecMinc  process_minc_func on one candidate: the queries, the        *)
(*             directories, the images and their QC files, with kills      *)
(*             and reruns of the script; the remote does not change.       *)
(*   SpecRun   the script from the login to its exit: the filter of the    *)
(*             candidates, the worker pool and the summary, with a         *)
(*             process function that returns, raises or gets stuck.        *)
(*   SpecRunFair  the same script on every candidate of the server, which  *)
(*             does not stop while it has a step to take.                  *)
(*   SpecBids  the fold of the manifest of the bids format by              *)
(*             create_bids_candidates_list.                                *)
(***************************************************************************)
EXTENDS Integers, Sequences, FiniteSets, TLC

(***************************************************************************)
(* Bounds of the model.                                                    *)
(***************************************************************************)
\* Versions a remote resource goes through: 1..MaxVer.
MaxVer == 2
\* session_object.get calls that fail (an exception or a rejected status)
\* within one process_api_get call; the loop itself has no limit.
MaxAttempts == 2
\* Images the server lists for the first visit of the candidate.
MaxFiles == 2
\* Candidates the server lists.
MaxEntities == 5
\* Worker processes of multiprocessing.Pool() (the number of cores).
MaxPool == 2
\* Items of file_manifest['SessionFiles'] and of file_manifest['Images'].
MaxSessions == 2
MaxImages == 2

(***************************************************************************)
(* Files, file contents, requests and responses.                           *)
(***************************************************************************)
Versions == 1..MaxVer

\* candidate['CandID'] and the visit labels of the candidate.
CandID == "1200000"
VisitLabels == <<"V1", "V2">>
\* The i-th Filename of an images JSON.
FileName(i) == <<"img", i>>

\* download_location + filename, under base_directory + CandID.
ImagePath(v, f) == [visit |-> v, file |-> f, suffix |-> ""]
\* session_file + ".qc.json"
QcPath(v, f) == [visit |-> v, file |-> f, suffix |-> ".qc.json"]
NoPath == [visit |-> "", file |-> <<>>, suffix |-> ""]

\* The API requests.
ImageUrl(v, f) == [api |-> "image", visit |-> v, file |-> f]
QcUrl(v, f) == [api |-> "qc", visit |-> v, file |-> f]
CandidateUrl == [api |-> "candidate", visit |-> "", file |-> <<>>]
SessionUrl(v) == [api |-> "session", visit |-> v, file |-> <<>>]
ImagesUrl(v) == [api |-> "images", visit |-> v, file |-> <<>>]
NoUrl == [api |-> "", visit |-> "", file |-> <<>>]

\* The file get_file is called with by the arbitrary caller of Spec.
FetchFiles == {ImagePath("V1", FileName(1))}
UrlOf(p) == ImageUrl(p.visit, p.file)

\* Contents of a path of the output tree.
NoFile == [kind |-> "absent"]
\* A file just opened with "w" / "w+b": it exists and is empty.
EmptyFile == [kind |-> "empty"]
\* The bytes of version v of a resource (server_response.content).
Body(v) == [kind |-> "body", ver |-> v]
\* The validation token of version v (server_response.headers['ETag']).
Token(v) == [kind |-> "etag", ver |-> v]

\* os.path.isfile
IsFile(c) == c # NoFile

\* server_response = "" : no response object yet.
NoResponse == [kind |-> "none"]
\* requests.Response.__bool__ is Response.ok: status below 400; "" is falsy.
Truthy(r) == r.kind = "response" /\ r.status < 400

NoRequest == [kind |-> "none"]
NoHeaders == [kind |-> "none"]
IfNoneMatch(etag) == [kind |-> "If-None-Match", etag |-> etag]

\* The exceptions session_object.get raises on a transport failure.
TransportErrors == {"ConnectTimeout", "ConnectionError"}
\* HTTP error statuses the server may answer with.
ErrorStatuses == {404, 500}

VARIABLES
    serverVer,   \* serverVer[u]: the version the server holds of file request u
    manifest,    \* manifest[v]: the Filenames the server lists for visit v
    body,        \* body[p]: download_location + filename
    sidecar,     \* sidecar[p]: download_location + "." + filename + ".etag"
    pc,          \* position of the running get_file / process_api_get
    ret,         \* where process_api_get returns to
    argUrl,      \* get_file's api_request
    argFile,     \* get_file's download_location + filename
    argEtag,     \* get_file's etag_checking
    req,         \* the request process_api_get issues (url, headers, expected_codes)
    resp,        \* server_response of get_file / get_json
    last,        \* what the last session_object.get of this loop produced
    attempts,    \* session_object.get calls made by this process_api_get call
    outcome,     \* what the last get_file call returned ("None": nothing yet)
    wrote,       \* body bytes were written by the current / last get_file call
    entry,       \* the file's state when the current / last get_file call began
    crashed,     \* what hit the run since the last get_file call ended: where
                 \* the process was killed, or that the sidecar was deleted
    wpc,         \* position of process_minc_func ("off": not part of the run)
    visits,      \* process_minc_func's visits
    candidate,   \* candidate['Visits'], in order: [visit, json, Filenames]
    vi,          \* the visit a loop of process_minc_func is at
    fi,          \* the file the download loop is at
    dirs,        \* the directories of the output tree
    tree,        \* candidate.json and the session.json files
    killed,      \* the script was killed at least once
    newCount,    \* newCount[p]: image get_file calls of this run that returned "New"
    qcCount,     \* qcCount[p]: QC get_file calls of this run for image p
    mainPc,      \* position of the script ("off": not part of the run)
    exitCode,    \* <<>> while the script runs, <<code>> once it has exited
    token,       \* the global token
    imaging_format,        \* the global imaging_format
    specified_candidates,  \* the global specified_candidates
    serverIds,   \* the CandIDs of the candidates the server lists
    candidates,  \* the script's candidates
    poolSize,    \* the worker processes of worker_pool
    waitsAll,    \* worker_pool.map raises once every task is over (Python 3)
                 \* or at the first task that failed (Python 2)
    job,         \* job[i]: the call process_function(candidates[i])
    candidates_list,       \* the script's candidates_list
    summary,     \* the counts of the final message, <<>> when not printed
    login,       \* what the login POST produced ("": not sent yet)
    logins,      \* the login POSTs sent
    sent,        \* the GETs sent: by whom (0: the script, i: job i), headers
    rootFiles,   \* the files the script itself wrote to base_directory
    touched,     \* touched[i]: the folders and files job i made or wrote
    file_manifest,         \* create_bids_candidates_list's file_manifest
    bidsCandidates,        \* create_bids_candidates_list's candidates['Candidates']
    bpc,         \* position of create_bids_candidates_list ("off": not run)
    bi,          \* the item a loop of create_bids_candidates_list is at
    argv,        \* the values of the -c option argparse has yet to convert
    parsed,      \* the values of the -c option argparse has converted
    base_directory,        \* the global base_directory (the -o option)
    plan,        \* the os.makedirs, open and get_file calls of a process function
    li,          \* the call of plan the process function is at
    lpc,         \* position of the process function ("off": not part of the run)
    made,        \* the directories there are
    opened       \* the files opened for writing

fetchVars == <<serverVer, manifest, body, sidecar, pc, ret, argUrl, argFile,
               argEtag, req, resp, last, attempts, outcome, wrote, entry, crashed>>
mincVars == <<wpc, visits, candidate, vi, fi, dirs, tree, killed, newCount, qcCount>>
\* What get_file and process_api_get leave alone.
runVars == <<mainPc, exitCode, token, imaging_format, specified_candidates,
             serverIds, candidates, poolSize, waitsAll, job, candidates_list,
             summary, login, logins, sent, rootFiles, touched>>
bidsVars == <<file_manifest, bidsCandidates, bpc, bi>>
\* The command line and the paths a process function makes and writes to.
cliVars == <<argv, parsed, base_directory, plan, li, lpc, made, opened>>
others == <<mincVars, runVars, bidsVars, cliVars>>

vars == <<fetchVars, mincVars, runVars, bidsVars, cliVars>>

NoCrash == [pc |-> "none", file |-> NoPath, etag |-> FALSE]
NoEntry == [sidecar |-> NoFile, body |-> NoFile, ver |-> 1, changed |-> FALSE,
            crash |-> NoCrash]

(***************************************************************************)
(* The server.                                                             *)
(***************************************************************************)
\* The session JSON of visit v and the JSON documents of the API.
Meta(v) == [Meta |-> <<CandID, v>>]
JsonOf(u) ==
    CASE u.api = "candidate" -> [Visits |-> VisitLabels]
      [] u.api = "session" -> Meta(u.visit)
      [] u.api = "images" ->
            [Files |-> [i \in 1..Len(manifest[u.visit]) |->
                           [Filename |-> manifest[u.visit][i]]]]

\* The answer of a healthy server to a GET. For a file: 304 when the
\* If-None-Match token is the current one, else 200 with the current body
\* and its token.
ServerAnswer(r) ==
    IF r.url.api \in {"image", "qc"}
    THEN LET v == serverVer[r.url] IN
         IF r.headers # NoHeaders /\ r.headers.etag = Token(v)
         THEN [kind |-> "response", status |-> 304, content |-> NoFile,
               etag |-> Token(v)]
         ELSE [kind |-> "response", status |-> 200, content |-> Body(v),
               etag |-> Token(v)]
    ELSE [kind |-> "response", status |-> 200, content |-> JsonOf(r.url),
          etag |-> NoFile]

ErrorAnswer(s) ==
    [kind |-> "response", status |-> s, content |-> NoFile, etag |-> NoFile]

\* The remote resource u changes.
ServerUpdate(u) ==
    /\ serverVer[u] < MaxVer
    /\ serverVer' = [serverVer EXCEPT ![u] = @ + 1]
    /\ entry' = IF pc # "idle" /\ argUrl = u
                THEN [entry EXCEPT !.changed = TRUE] ELSE entry
    /\ UNCHANGED <<manifest, body, sidecar, pc, ret, argUrl, argFile, argEtag,
                   req, resp, last, attempts, outcome, wrote, crashed>>
    /\ UNCHANGED others

(***************************************************************************)
(* process_api_get                                                         *)
(***************************************************************************)
\* except requests.exceptions.ConnectTimeout / ConnectionError: continue
HandledTimeoutOnly(e) == e = "ConnectTimeout"
Handled(e) == e \in {"ConnectTimeout", "ConnectionError"}

\* if server_response.status_code in expected_codes: break
AcceptsAny(status, expected) == TRUE
Accepts(status, expected) == status \in expected

\* The call process_api_get(url, headers, api_request, expected_codes, ...).
ApiCall(url, headers, expected, back) ==
    /\ req' = [kind |-> "GET", url |-> url, headers |-> headers, expected |-> expected]
    /\ last' = NoResponse
    /\ attempts' = 0
    /\ ret' = back
    /\ pc' = "api"

\* One iteration of the while True loop: the request raises a transport error.
ApiTransportError ==
    /\ pc = "api"
    /\ attempts < MaxAttempts
    /\ \E e \in TransportErrors :
          /\ last' = [kind |-> "exception", name |-> e]
          /\ pc' = IF Handled(e) THEN "api" ELSE "raised"
    /\ attempts' = attempts + 1
    /\ UNCHANGED <<serverVer, manifest, body, sidecar, ret, argUrl, argFile,
                   argEtag, req, resp, outcome, wrote, entry, crashed>>
    /\ UNCHANGED others

\* One iteration of the while True loop: the server answers.
ApiResponse ==
    /\ pc = "api"
    /\ \E r \in {ServerAnswer(req)} \cup
                {ErrorAnswer(s) : s \in IF attempts < MaxAttempts
                                        THEN ErrorStatuses ELSE {}} :
          /\ last' = r
          /\ IF Accepts(r.status, req.expected)
             THEN /\ resp' = r
                  /\ pc' = ret
             ELSE /\ resp' = resp
                  /\ pc' = "api"
    /\ attempts' = attempts + 1
    /\ UNCHANGED <<serverVer, manifest, body, sidecar, ret, argUrl, argFile,
                   argEtag, req, outcome, wrote, entry, crashed>>
    /\ UNCHANGED others

(***************************************************************************)
(* get_file                                                                *)
(***************************************************************************)
\* if etag_checking and os.path.isfile(... ".etag")
UsesSidecarNever(etag_checking, f) == FALSE
UsesSidecarAlways(etag_checking, f) == etag_checking
UsesSidecar(etag_checking, f) == etag_checking /\ IsFile(sidecar[f])

\* if server_response.status_code == 304
IsCurrentNever(r) == FALSE
IsCurrent(r) == r.status = 304

\* if not server_response
NeedsRequestAlways(r) == TRUE
NeedsRequest(r) == ~Truthy(r)

\* os.remove(download_location + "." + filename + ".etag")
KeepStale(sc, f) == sc
RemoveStale(sc, f) == [sc EXCEPT ![f] = NoFile]

\* if etag_checking (before the sidecar is written)
WritesSidecarNever(etag_checking) == FALSE
WritesSidecar(etag_checking) == etag_checking

\* return "New" / return "Current"
GetFileReturn(value) ==
    /\ pc' = "returned"
    /\ outcome' = value

\* get_file is called: the sidecar test and, with a sidecar, the conditional GET.
GetFileEnter(url, f, etag_checking) ==
    /\ pc = "idle"
    /\ argUrl' = url
    /\ argFile' = f
    /\ argEtag' = etag_checking
    /\ outcome' = "None"
    /\ wrote' = FALSE
    /\ entry' = [sidecar |-> sidecar[f], body |-> body[f], ver |-> serverVer[url],
                 changed |-> FALSE, crash |-> crashed]
    /\ crashed' = NoCrash
    /\ IF UsesSidecar(etag_checking, f)
       THEN /\ ApiCall(url, IfNoneMatch(sidecar[f]), {200, 304}, "after_conditional")
            /\ resp' = NoResponse
       ELSE /\ pc' = "second_request"
            /\ resp' = NoResponse
            /\ UNCHANGED <<req, last, attempts, ret>>
    /\ UNCHANGED <<serverVer, manifest, body, sidecar>>

\* The conditional GET returned: 304 returns "Current", 200 removes the sidecar.
GetFileAfterConditional ==
    /\ pc = "after_conditional"
    /\ IF IsCurrent(resp)
       THEN /\ GetFileReturn("Current")
            /\ UNCHANGED sidecar
       ELSE /\ sidecar' = RemoveStale(sidecar, argFile)
            /\ pc' = "second_request"
            /\ UNCHANGED outcome
    /\ UNCHANGED <<serverVer, manifest, body, ret, argUrl, argFile, argEtag, req,
                   resp, last, attempts, wrote, entry, crashed>>
    /\ UNCHANGED others

\* if not server_response: the plain GET, expecting 200.
GetFileSecondRequest ==
    /\ pc = "second_request"
    /\ IF NeedsRequest(resp)
       THEN ApiCall(argUrl, NoHeaders, {200}, "open_body")
       ELSE /\ pc' = "open_body"
            /\ UNCHANGED <<req, last, attempts, ret>>
    /\ UNCHANGED <<serverVer, manifest, body, sidecar, argUrl, argFile, argEtag,
                   resp, outcome, wrote, entry, crashed>>
    /\ UNCHANGED others

\* open(download_location + filename, "w+b"): creates or truncates the body.
GetFileOpenBody ==
    /\ pc = "open_body"
    /\ body' = [body EXCEPT ![argFile] = EmptyFile]
    /\ pc' = "write_body"
    /\ UNCHANGED <<serverVer, manifest, sidecar, ret, argUrl, argFile, argEtag,
                   req, resp, last, attempts, outcome, wrote, entry, crashed>>
    /\ UNCHANGED others

\* file_output.write(bytes(server_response.content)) and the close.
GetFileWriteBody ==
    /\ pc = "write_body"
    /\ body' = [body EXCEPT ![argFile] = resp.content]
    /\ wrote' = TRUE
    /\ pc' = "open_etag"
    /\ UNCHANGED <<serverVer, manifest, sidecar, ret, argUrl, argFile, argEtag,
                   req, resp, last, attempts, outcome, entry, crashed>>
    /\ UNCHANGED others

\* if etag_checking: open(... ".etag", "w"); else return "New".
GetFileOpenEtag ==
    /\ pc = "open_etag"
    /\ IF WritesSidecar(argEtag)
       THEN /\ sidecar' = [sidecar EXCEPT ![argFile] = EmptyFile]
            /\ pc' = "write_etag"
            /\ UNCHANGED outcome
       ELSE /\ GetFileReturn("New")
            /\ UNCHANGED sidecar
    /\ UNCHANGED <<serverVer, manifest, body, ret, argUrl, argFile, argEtag, req,
                   resp, last, attempts, wrote, entry, crashed>>
    /\ UNCHANGED others

\* etag_file.write(server_response.headers['ETag']), the close, return "New".
GetFileWriteEtag ==
    /\ pc = "write_etag"
    /\ sidecar' = [sidecar EXCEPT ![argFile] = resp.etag]
    /\ GetFileReturn("New")
    /\ UNCHANGED <<serverVer, manifest, body, ret, argUrl, argFile, argEtag, req,
                   resp, last, attempts, wrote, entry, crashed>>
    /\ UNCHANGED others

\* The locals of a get_file / get_json call that is over.
Forget ==
    /\ pc' = "idle"
    /\ ret' = "none"
    /\ argUrl' = NoUrl
    /\ argFile' = NoPath
    /\ argEtag' = FALSE
    /\ req' = NoRequest
    /\ resp' = NoResponse
    /\ last' = NoResponse
    /\ attempts' = 0
    /\ outcome' = "None"
    /\ wrote' = FALSE
    /\ entry' = NoEntry

\* The process is killed: its memory is lost, the disk stays.
Kill ==
    /\ crashed' = [pc |-> pc, file |-> argFile, etag |-> argEtag]
    /\ Forget
    /\ UNCHANGED <<serverVer, manifest, body, sidecar>>

InitFetch(urls, paths) ==
    /\ serverVer = [u \in urls |-> 1]
    /\ body = [p \in paths |-> NoFile]
    /\ sidecar = [p \in paths |-> NoFile]
    /\ pc = "idle"
    /\ ret = "none"
    /\ argUrl = NoUrl
    /\ argFile = NoPath
    /\ argEtag = FALSE
    /\ req = NoRequest
    /\ resp = NoResponse
    /\ last = NoResponse
    /\ attempts = 0
    /\ outcome = "None"
    /\ wrote = FALSE
    /\ entry = NoEntry
    /\ crashed = NoCrash

(***************************************************************************)
(* Spec: get_file under an arbitrary caller.                               *)
(***************************************************************************)
NoJson == [kind |-> "unset"]

MincOff ==
    /\ wpc = "off"
    /\ visits = <<>>
    /\ candidate = <<>>
    /\ vi = 1
    /\ fi = 1
    /\ dirs = {}
    /\ tree = <<>>
    /\ killed = FALSE
    /\ newCount = <<>>
    /\ qcCount = <<>>

\* The command line is not looked at, no path is made.
CliOff ==
    /\ argv = <<>>
    /\ parsed = <<>>
    /\ base_directory = <<>>
    /\ plan = <<>>
    /\ li = 1
    /\ lpc = "off"
    /\ made = {}
    /\ opened = {}

\* The script itself is not part of the run.
RunOff ==
    /\ mainPc = "off"
    /\ exitCode = <<>>
    /\ token = ""
    /\ imaging_format = ""
    /\ specified_candidates = {}
    /\ serverIds = <<>>
    /\ candidates = <<>>
    /\ poolSize = 1
    /\ waitsAll = TRUE
    /\ job = <<>>
    /\ candidates_list = <<>>
    /\ summary = <<>>
    /\ login = ""
    /\ logins = 0
    /\ sent = {}
    /\ rootFiles = {}
    /\ touched = <<>>
    /\ file_manifest = [SessionFiles |-> <<>>, Images |-> <<>>]
    /\ bidsCandidates = [k \in {} |-> <<>>]
    /\ bpc = "off"
    /\ bi = 1
    /\ CliOff

Init ==
    /\ InitFetch({UrlOf(p) : p \in FetchFiles}, FetchFiles)
    /\ manifest = [v \in {} |-> <<>>]
    /\ MincOff
    /\ RunOff

\* The caller calls get_file.
Call(f, etag_checking) ==
    /\ GetFileEnter(UrlOf(f), f, etag_checking)
    /\ UNCHANGED others

\* The caller has the value get_file returned; the call's frame is gone.
CallerResumes ==
    /\ pc \in {"returned", "raised"}
    /\ Forget
    /\ UNCHANGED <<serverVer, manifest, body, sidecar, crashed>>
    /\ UNCHANGED others

\* The sidecar of f is deleted between two get_file calls.
DeleteSidecar(f) ==
    /\ pc = "idle"
    /\ IsFile(sidecar[f])
    /\ sidecar' = [sidecar EXCEPT ![f] = NoFile]
    /\ crashed' = [pc |-> "sidecar_deleted", file |-> f, etag |-> FALSE]
    /\ UNCHANGED <<serverVer, manifest, body, pc, ret, argUrl, argFile, argEtag,
                   req, resp, last, attempts, outcome, wrote, entry>>
    /\ UNCHANGED others

\* The process is killed inside get_file.
Crash ==
    /\ pc \notin {"idle", "returned", "raised"}
    /\ Kill
    /\ UNCHANGED others

Next ==
    \/ \E f \in FetchFiles, e \in BOOLEAN : Call(f, e)
    \/ GetFileAfterConditional
    \/ GetFileSecondRequest
    \/ GetFileOpenBody
    \/ GetFileWriteBody
    \/ GetFileOpenEtag
    \/ GetFileWriteEtag
    \/ ApiTransportError
    \/ ApiResponse
    \/ \E f \in FetchFiles : ServerUpdate(UrlOf(f))
    \/ \E f \in FetchFiles : DeleteSidecar(f)
    \/ CallerResumes
    \/ Crash

Spec == Init /\ [][Next]_vars

(***************************************************************************)
(* get_json                                                                *)
(***************************************************************************)
\* process_api_get(hostname + api_version + api_request, {}, ..., [200], ...)
GetJsonCall(url) ==
    /\ ApiCall(url, NoHeaders, {200}, "json")
    /\ resp' = NoResponse
    /\ UNCHANGED <<argUrl, argFile, argEtag, outcome, wrote, entry>>

(***************************************************************************)
(* process_minc_func                                                       *)
(***************************************************************************)
\* The candidate of the /candidates/ list process_minc_func is mapped on.
CandidateRecord ==
    [CandID |-> CandID, PSCID |-> "PSCID", Site |-> "Site", DoB |-> "DoB",
     Gender |-> "Gender", Language |-> "Language", Project |-> "Project",
     Visits |-> <<>>]
CandidateJsonWhole == CandidateRecord
\* str({property_key: candidate[property_key] for property_key in (...)})
CandidateJson ==
    [k \in {"CandID", "PSCID", "Site", "DoB", "Gender", "Language", "Project"}
        |-> CandidateRecord[k]]

\* base_directory + "/%s", + "/%s/%s", and the two JSON files
CandDir == <<CandID>>
VisitDir(v) == <<CandID, v>>
CandidateJsonPath == <<CandID, "candidate.json">>
SessionJsonPath(v) == <<CandID, v, "session.json">>

Labels == {VisitLabels[i] : i \in 1..Len(VisitLabels)}
FileNames(n) == [i \in 1..n |-> FileName(i)]
\* What the server may list: up to MaxFiles images for the first visit, at
\* most one for every other.
Manifests ==
    {m \in [Labels -> {FileNames(n) : n \in 0..MaxFiles}] :
        \A v \in Labels : v # VisitLabels[1] => Len(m[v]) <= 1}
AllImages == {ImagePath(v, FileName(i)) : v \in Labels, i \in 1..MaxFiles}
AllPaths == AllImages \cup {QcPath(p.visit, p.file) : p \in AllImages}
AllUrls == {ImageUrl(p.visit, p.file) : p \in AllImages}
              \cup {QcUrl(p.visit, p.file) : p \in AllImages}

\* {key: val for key, val in candidate['Visits'].items() if val['Filenames']}
RetainedAll(c) == c
Retained(c) == SelectSeq(c, LAMBDA e : e.Filenames # <<>>)

\* get_file(...) == "New"
QcGateAlways(value) == TRUE
QcGate(value) == value = "New"

\* The etag_checking argument of the image and of the QC download.
ImageEtagChecking == TRUE
QcEtagChecking == FALSE

\* The memory of a process_minc_func that has not begun.
MincFresh ==
    /\ visits' = <<>>
    /\ candidate' = <<>>
    /\ vi' = 1
    /\ fi' = 1
    /\ newCount' = [p \in AllImages |-> 0]
    /\ qcCount' = [p \in AllImages |-> 0]

InitMinc ==
    /\ InitFetch(AllUrls, AllPaths)
    /\ manifest \in Manifests
    /\ wpc = "start"
    /\ visits = <<>>
    /\ candidate = <<>>
    /\ vi = 1
    /\ fi = 1
    /\ dirs = {}
    /\ tree = [p \in {CandidateJsonPath} \cup {SessionJsonPath(v) : v \in Labels}
                  |-> NoFile]
    /\ killed = FALSE
    /\ newCount = [p \in AllImages |-> 0]
    /\ qcCount = [p \in AllImages |-> 0]
    /\ RunOff

\* visits = get_json("/candidates/%s" ...)['Visits']: the request.
MincStart ==
    /\ wpc = "start" /\ pc = "idle"
    /\ GetJsonCall(CandidateUrl)
    /\ wpc' = "visits"
    /\ UNCHANGED <<serverVer, manifest, body, sidecar, crashed>>
    /\ UNCHANGED <<visits, candidate, vi, fi, dirs, tree, killed, newCount, qcCount>>
    /\ UNCHANGED <<runVars, bidsVars, cliVars>>

\* candidate['Visits'] = {visit: {} for visit in visits}
MincGotVisits ==
    /\ wpc = "visits" /\ pc = "json"
    /\ visits' = resp.content.Visits
    /\ candidate' = [i \in 1..Len(resp.content.Visits) |->
                        [visit |-> resp.content.Visits[i], json |-> NoJson,
                         Filenames |-> <<>>]]
    /\ vi' = 1
    /\ wpc' = "query_session"
    /\ Forget
    /\ UNCHANGED <<serverVer, manifest, body, sidecar, crashed>>
    /\ UNCHANGED <<fi, dirs, tree, killed, newCount, qcCount>>
    /\ UNCHANGED <<runVars, bidsVars, cliVars>>

\* for visit in visits: the session JSON is requested; after the loop, the
\* filter of the visits without images.
MincQuerySession ==
    /\ wpc = "query_session" /\ pc = "idle"
    /\ IF vi <= Len(visits)
       THEN /\ GetJsonCall(SessionUrl(visits[vi]))
            /\ wpc' = "session"
       ELSE /\ wpc' = "filter"
            /\ UNCHANGED <<pc, ret, argUrl, argFile, argEtag, req, resp, last,
                           attempts, outcome, wrote, entry>>
    /\ UNCHANGED <<serverVer, manifest, body, sidecar, crashed>>
    /\ UNCHANGED <<visits, candidate, vi, fi, dirs, tree, killed, newCount, qcCount>>
    /\ UNCHANGED <<runVars, bidsVars, cliVars>>

\* candidate['Visits'][visit]['json'] = session_json; the images JSON is requested.
MincGotSession ==
    /\ wpc = "session" /\ pc = "json"
    /\ candidate' = [candidate EXCEPT ![vi].json = resp.content]
    /\ GetJsonCall(ImagesUrl(visits[vi]))
    /\ wpc' = "images"
    /\ UNCHANGED <<serverVer, manifest, body, sidecar, crashed>>
    /\ UNCHANGED <<visits, vi, fi, dirs, tree, killed, newCount, qcCount>>
    /\ UNCHANGED <<runVars, bidsVars, cliVars>>

\* candidate['Visits'][visit]['Filenames'] gets every Filename of the images JSON.
MincGotImages ==
    /\ wpc = "images" /\ pc = "json"
    /\ candidate' = [candidate EXCEPT ![vi].Filenames =
                        [i \in 1..Len(resp.content.Files) |->
                            resp.content.Files[i].Filename]]
    /\ vi' = vi + 1
    /\ wpc' = "query_session"
    /\ Forget
    /\ UNCHANGED <<serverVer, manifest, body, sidecar, crashed>>
    /\ UNCHANGED <<visits, fi, dirs, tree, killed, newCount, qcCount>>
    /\ UNCHANGED <<runVars, bidsVars, cliVars>>

\* The visits without Filenames are removed; the candidate's folder is made.
MincFilter ==
    /\ wpc = "filter"
    /\ candidate' = Retained(candidate)
    /\ dirs' = dirs \cup {CandDir}
    /\ wpc' = "candidate_json"
    /\ UNCHANGED fetchVars
    /\ UNCHANGED <<visits, vi, fi, tree, killed, newCount, qcCount>>
    /\ UNCHANGED <<runVars, bidsVars, cliVars>>

\* candidate.json is written.
MincWriteCandidate ==
    /\ wpc = "candidate_json"
    /\ tree' = [tree EXCEPT ![CandidateJsonPath] = CandidateJson]
    /\ vi' = 1
    /\ wpc' = "visit_dir"
    /\ UNCHANGED fetchVars
    /\ UNCHANGED <<visits, candidate, fi, dirs, killed, newCount, qcCount>>
    /\ UNCHANGED <<runVars, bidsVars, cliVars>>

\* for visit in candidate['Visits']: the folder of the visit is made.
MincVisitDir ==
    /\ wpc = "visit_dir"
    /\ IF vi <= Len(candidate)
       THEN /\ dirs' = dirs \cup {VisitDir(candidate[vi].visit)}
            /\ wpc' = "session_json"
            /\ UNCHANGED <<vi, fi>>
       ELSE /\ wpc' = "fetch"
            /\ vi' = 1
            /\ fi' = 1
            /\ UNCHANGED dirs
    /\ UNCHANGED fetchVars
    /\ UNCHANGED <<visits, candidate, tree, killed, newCount, qcCount>>
    /\ UNCHANGED <<runVars, bidsVars, cliVars>>

\* session.json gets the Meta property of the session JSON.
MincWriteSession ==
    /\ wpc = "session_json"
    /\ tree' = [tree EXCEPT ![SessionJsonPath(candidate[vi].visit)] =
                   candidate[vi].json.Meta]
    /\ vi' = vi + 1
    /\ wpc' = "visit_dir"
    /\ UNCHANGED fetchVars
    /\ UNCHANGED <<visits, candidate, fi, dirs, killed, newCount, qcCount>>
    /\ UNCHANGED <<runVars, bidsVars, cliVars>>

\* The download loops: the next image is fetched with get_file.
MincFetchImage ==
    /\ wpc = "fetch" /\ pc = "idle"
    /\ IF vi > Len(candidate)
       THEN /\ wpc' = "done"
            /\ UNCHANGED <<vi, fi>>
            /\ UNCHANGED fetchVars
       ELSE IF fi > Len(candidate[vi].Filenames)
       THEN /\ vi' = vi + 1
            /\ fi' = 1
            /\ UNCHANGED wpc
            /\ UNCHANGED fetchVars
       ELSE /\ GetFileEnter(ImageUrl(candidate[vi].visit, candidate[vi].Filenames[fi]),
                            ImagePath(candidate[vi].visit, candidate[vi].Filenames[fi]),
                            ImageEtagChecking)
            /\ wpc' = "image"
            /\ UNCHANGED <<vi, fi>>
    /\ UNCHANGED <<visits, candidate, dirs, tree, killed, newCount, qcCount>>
    /\ UNCHANGED <<runVars, bidsVars, cliVars>>

\* if get_file(...) == "New": the QC download is due.
MincAfterImage ==
    /\ wpc = "image" /\ pc = "returned"
    /\ newCount' = IF outcome = "New"
                   THEN [newCount EXCEPT ![argFile] = @ + 1] ELSE newCount
    /\ IF QcGate(outcome)
       THEN /\ wpc' = "qc"
            /\ UNCHANGED fi
       ELSE /\ wpc' = "fetch"
            /\ fi' = fi + 1
    /\ Forget
    /\ UNCHANGED <<serverVer, manifest, body, sidecar, crashed>>
    /\ UNCHANGED <<visits, candidate, vi, dirs, tree, killed, qcCount>>
    /\ UNCHANGED <<runVars, bidsVars, cliVars>>

\* get_file of the QC of the image, without ETag checking.
MincFetchQc ==
    /\ wpc = "qc" /\ pc = "idle"
    /\ GetFileEnter(QcUrl(candidate[vi].visit, candidate[vi].Filenames[fi]),
                    QcPath(candidate[vi].visit, candidate[vi].Filenames[fi]),
                    QcEtagChecking)
    /\ qcCount' = [qcCount EXCEPT
                      ![ImagePath(candidate[vi].visit, candidate[vi].Filenames[fi])]
                          = @ + 1]
    /\ wpc' = "qc_wait"
    /\ UNCHANGED <<visits, candidate, vi, fi, dirs, tree, killed, newCount>>
    /\ UNCHANGED <<runVars, bidsVars, cliVars>>

\* The QC download returned: the next file.
MincAfterQc ==
    /\ wpc = "qc_wait" /\ pc = "returned"
    /\ fi' = fi + 1
    /\ wpc' = "fetch"
    /\ Forget
    /\ UNCHANGED <<serverVer, manifest, body, sidecar, crashed>>
    /\ UNCHANGED <<visits, candidate, vi, dirs, tree, killed, newCount, qcCount>>
    /\ UNCHANGED <<runVars, bidsVars, cliVars>>

\* The script is killed while process_minc_func runs, and started again.
MincKill ==
    /\ wpc \notin {"start", "done"}
    /\ Kill
    /\ MincFresh
    /\ wpc' = "start"
    /\ killed' = TRUE
    /\ UNCHANGED <<dirs, tree>>
    /\ UNCHANGED <<runVars, bidsVars, cliVars>>

\* The script ran to its end and is run again.
MincRerun ==
    /\ wpc = "done"
    /\ MincFresh
    /\ wpc' = "start"
    /\ UNCHANGED fetchVars
    /\ UNCHANGED <<dirs, tree, killed>>
    /\ UNCHANGED <<runVars, bidsVars, cliVars>>

NextMinc ==
    \/ MincStart
    \/ MincGotVisits
    \/ MincQuerySession
    \/ MincGotSession
    \/ MincGotImages
    \/ MincFilter
    \/ MincWriteCandidate
    \/ MincVisitDir
    \/ MincWriteSession
    \/ MincFetchImage
    \/ MincAfterImage
    \/ MincFetchQc
    \/ MincAfterQc
    \/ GetFileAfterConditional
    \/ GetFileSecondRequest
    \/ GetFileOpenBody
    \/ GetFileWriteBody
    \/ GetFileOpenEtag
    \/ GetFileWriteEtag
    \/ ApiTransportError
    \/ ApiResponse
    \/ MincKill
    \/ MincRerun

SpecMinc == InitMinc /\ [][NextMinc]_vars

(***************************************************************************)
(* The script: login, candidates list, filter, worker pool, summary.       *)
(***************************************************************************)
\* The CandIDs of the server, one outside of it, and a CandID as the JSON
\* of the API holds it (a string) with int() of it.
Entities == {1200000 + i : i \in 1..MaxEntities}
Outsiders == {9999998}
Str(n) == <<"str", n>>
IntOf(s) == s[2]
EntityList == [i \in 1..MaxEntities |-> [CandID |-> Str(1200000 + i)]]

\* The -c options tried: none, the first CandIDs of the server, with or
\* without a CandID the server does not have.
Filters ==
    {{1200000 + i : i \in 1..n} \cup o : n \in 0..MaxEntities, o \in {{}, Outsiders}}

\* What the login POST may produce: an exception or a status.
LoginOutcomes == {"ConnectTimeout", "ConnectionError", "200", "401", "500"}
\* initialize_jwt returns True: response.status_code == 200
LoginSucceedsOnAnyStatus(o) == o \notin TransportErrors
LoginSucceeds(o) == o = "200"

\* session_object.headers = {'Authorization': 'Bearer %s' % token}: the
\* worker processes are forks of the script and read the same global.
Bearer(t) == [Authorization |-> <<"Bearer", t>>]
SessionHeadersBeforeLogin == Bearer("")
SessionHeaders == Bearer(token)
\* A GET of the orchestrator (by = 0) or of the job by.
Get(by, headers) == [by |-> by, headers |-> headers]

\* The dataset files create_bids_candidates_list downloads to base_directory.
RootFiles == {"dataset_description.json", "README", ".bids-validator-config.json",
              "participants.tsv", "participants.json"}
\* The get_file calls of create_bids_candidates_list, in their order; the
\* flat layout has none.
RootFileList ==
    <<"dataset_description.json", "README", ".bids-validator-config.json",
      "participants.tsv", "participants.json">>
RootFilesDueNone(fmt) == <<>>
RootFilesDue(fmt) == IF fmt = "bids" THEN RootFileList ELSE <<>>
\* get_file(link, base_directory, name, True, session_object)
RootEtagChecking == TRUE
RootFetch(name) == [name |-> name, etag_checking |-> RootEtagChecking]
\* The folder of a candidate: base_directory + "/sub-%s" or "/%s".
EntityDirShared(fmt, c) == IF fmt = "bids" THEN <<"sub-">> ELSE <<"">>
EntityDir(fmt, c) == IF fmt = "bids" THEN <<"sub-", c.CandID>> ELSE <<c.CandID>>
\* What a process function creates and writes: the folder of the candidate,
\* a folder of a visit, a file in it with its sidecar, and candidate.json
\* in the flat layout.
Beneath(fmt) ==
    {<<"V1">>, <<"V1", "file">>, <<"V1", ".file.etag">>}
        \cup (IF fmt = "minc" THEN {<<"candidate.json">>} ELSE {})
NoTouch == [dirs |-> {}, files |-> {}]
JobTouch(fmt, c) ==
    [dirs |-> {EntityDir(fmt, c), EntityDir(fmt, c) \o <<"V1">>},
     files |-> {EntityDir(fmt, c) \o s : s \in Beneath(fmt) \ {<<"V1">>}}]
\* What a process function that did not return may have left.
PartialTouch(fmt, c) == {NoTouch, [dirs |-> {EntityDir(fmt, c)}, files |-> {}]}

InitRun ==
    /\ InitFetch({}, {})
    /\ manifest = [v \in {} |-> <<>>]
    /\ MincOff
    /\ mainPc = "login"
    /\ exitCode = <<>>
    /\ token = ""
    /\ imaging_format \in {"bids", "minc"}
    /\ specified_candidates \in Filters
    /\ serverIds \in {<<>>, EntityList}
    /\ candidates = <<>>
    /\ poolSize \in 1..MaxPool
    /\ waitsAll \in BOOLEAN
    /\ job = <<>>
    /\ candidates_list = <<>>
    /\ summary = <<>>
    /\ login = ""
    /\ logins = 0
    /\ sent = {}
    /\ rootFiles = {}
    /\ touched = <<>>
    /\ file_manifest = [SessionFiles |-> <<>>, Images |-> <<>>]
    /\ bidsCandidates = [k \in {} |-> <<>>]
    /\ bpc = "off"
    /\ bi = 1
    /\ CliOff

\* exit(code)
Exit(code) ==
    /\ mainPc' = "exit"
    /\ exitCode' = <<code>>

\* if initialize_jwt(...): the token is set; else: exit with the error code.
RunLogin ==
    /\ mainPc = "login"
    /\ \E o \in LoginOutcomes :
          /\ login' = o
          /\ IF LoginSucceeds(o)
             THEN /\ token' = "jwt"
                  /\ mainPc' = "create_list"
                  /\ UNCHANGED exitCode
             ELSE /\ Exit(3)
                  /\ UNCHANGED token
    /\ logins' = logins + 1
    /\ UNCHANGED <<imaging_format, specified_candidates, serverIds, candidates,
                   poolSize, waitsAll, job, candidates_list, summary>>
    /\ UNCHANGED <<sent, rootFiles, touched>>
    /\ UNCHANGED <<fetchVars, mincVars, bidsVars, cliVars>>

\* create_bids_candidates_list(): the next get_file of a dataset file into
\* base_directory, after the get_json of the manifest.
RunFetchRoot ==
    /\ mainPc = "create_list"
    /\ Cardinality(rootFiles) < Len(RootFilesDue(imaging_format))
    /\ rootFiles' = rootFiles \cup
          {RootFetch(RootFilesDue(imaging_format)[Cardinality(rootFiles) + 1])}
    /\ sent' = sent \cup {Get(0, SessionHeaders)}
    /\ UNCHANGED <<mainPc, exitCode, token, imaging_format, specified_candidates,
                   serverIds, candidates, poolSize, waitsAll, job,
                   candidates_list, summary>>
    /\ UNCHANGED <<login, logins, touched>>
    /\ UNCHANGED <<fetchVars, mincVars, bidsVars, cliVars>>

\* create_bids_candidates_list() / create_minc_candidates_list() return the
\* list of the candidates, or exit(1).
RunCreateList ==
    /\ mainPc = "create_list"
    /\ Cardinality(rootFiles) = Len(RootFilesDue(imaging_format))
    /\ IF imaging_format \in {"bids", "minc"}
       THEN /\ candidates' = serverIds
            /\ sent' = sent \cup {Get(0, SessionHeaders)}
            /\ UNCHANGED rootFiles
            /\ mainPc' = "filter"
            /\ UNCHANGED exitCode
       ELSE /\ Exit(1)
            /\ UNCHANGED <<candidates, sent, rootFiles>>
    /\ UNCHANGED <<token, imaging_format, specified_candidates, serverIds,
                   poolSize, waitsAll, job, candidates_list, summary>>
    /\ UNCHANGED <<login, logins, touched>>
    /\ UNCHANGED <<fetchVars, mincVars, bidsVars, cliVars>>

\* [candidate for candidate in candidates
\*     if int(candidate['CandID']) in specified_candidates]
FilteredNone(cs, specified) == cs
FilteredEvenIfEmpty(cs, specified) ==
    SelectSeq(cs, LAMBDA c : IntOf(c.CandID) \in specified)
Filtered(cs, specified) ==
    IF specified # {}
    THEN SelectSeq(cs, LAMBDA c : IntOf(c.CandID) \in specified)
    ELSE cs

\* The pool, the filter, and exit(2) when the filter left nothing.
RunFilter ==
    /\ mainPc = "filter"
    /\ candidates' = Filtered(candidates, specified_candidates)
    /\ candidates_list' = <<>>
    /\ IF candidates' = <<>> /\ specified_candidates # {}
       THEN Exit(2)
       ELSE /\ mainPc' = "dispatch"
            /\ UNCHANGED exitCode
    /\ UNCHANGED <<token, imaging_format, specified_candidates, serverIds,
                   poolSize, waitsAll, job, summary>>
    /\ UNCHANGED <<login, logins, sent, rootFiles, touched>>
    /\ UNCHANGED <<fetchVars, mincVars, bidsVars, cliVars>>

\* Pool.map: the tasks are cut in chunks of this size, a chunk is one task
\* of a worker process.
ChunkSize(n, p) ==
    IF n % (4 * p) # 0 THEN n \div (4 * p) + 1 ELSE n \div (4 * p)
ChunkOf(i) == (i - 1) \div ChunkSize(Len(candidates), poolSize)
Tasks == 1..Len(job)
Over(i) == job[i] \in {"returned", "raised", "skipped"}
\* The chunks a worker process is at: a process function runs or is stuck
\* in the loop of process_api_get, or the next one of the chunk is due.
BusyChunks ==
    {ChunkOf(i) : i \in {k \in Tasks : job[k] \in {"running", "stalled"}}}
        \cup {ChunkOf(i) : i \in {k \in Tasks : k > 1 /\ job[k] = "queued"
                                     /\ ChunkOf(k - 1) = ChunkOf(k)
                                     /\ job[k - 1] = "returned"}}
\* A worker process is there to take the next chunk.
FreeWorkerUnlessStalled ==
    /\ Cardinality(BusyChunks) < poolSize
    /\ \A k \in Tasks : job[k] # "stalled"
FreeWorker == Cardinality(BusyChunks) < poolSize

\* worker_pool.map(process_function, candidates): the tasks are queued.
RunDispatch ==
    /\ mainPc = "dispatch"
    /\ job' = [i \in 1..Len(candidates) |-> "queued"]
    /\ touched' = [i \in 1..Len(candidates) |-> NoTouch]
    /\ mainPc' = "map"
    /\ UNCHANGED <<exitCode, token, imaging_format, specified_candidates,
                   serverIds, candidates, poolSize, waitsAll, candidates_list,
                   summary>>
    /\ UNCHANGED <<login, logins, sent, rootFiles>>
    /\ UNCHANGED <<fetchVars, mincVars, bidsVars, cliVars>>

\* A worker process calls process_function(candidates[i]): the function
\* makes its session and sends its requests with it.
JobStart(i) ==
    /\ mainPc = "map"
    /\ job[i] = "queued"
    /\ IF i > 1 /\ ChunkOf(i - 1) = ChunkOf(i)
       THEN job[i - 1] = "returned"
       ELSE /\ \A k \in 1..(i - 1) : job[k] # "queued" \/ ChunkOf(k) = ChunkOf(k - 1)
            /\ FreeWorker
    /\ job' = [job EXCEPT ![i] = "running"]
    /\ sent' = sent \cup {Get(i, SessionHeaders)}
    /\ UNCHANGED <<mainPc, exitCode, token, imaging_format, specified_candidates,
                   serverIds, candidates, poolSize, waitsAll, candidates_list,
                   summary>>
    /\ UNCHANGED <<login, logins, rootFiles, touched>>
    /\ UNCHANGED <<fetchVars, mincVars, bidsVars, cliVars>>

\* process_function(candidates[i]) returns the candidate.
JobReturn(i) ==
    /\ mainPc = "map"
    /\ job[i] = "running"
    /\ job' = [job EXCEPT ![i] = "returned"]
    /\ touched' = [touched EXCEPT ![i] = JobTouch(imaging_format, candidates[i])]
    /\ UNCHANGED <<mainPc, exitCode, token, imaging_format, specified_candidates,
                   serverIds, candidates, poolSize, waitsAll, candidates_list,
                   summary>>
    /\ UNCHANGED <<login, logins, sent, rootFiles>>
    /\ UNCHANGED <<fetchVars, mincVars, bidsVars, cliVars>>

\* process_function(candidates[i]) raises: the rest of its chunk is not run.
JobRaise(i) ==
    /\ mainPc = "map"
    /\ job[i] = "running"
    /\ job' = [k \in Tasks |->
                 IF k = i THEN "raised"
                 ELSE IF k > i /\ ChunkOf(k) = ChunkOf(i) THEN "skipped"
                 ELSE job[k]]
    /\ \E part \in PartialTouch(imaging_format, candidates[i]) :
          touched' = [touched EXCEPT ![i] = part]
    /\ UNCHANGED <<mainPc, exitCode, token, imaging_format, specified_candidates,
                   serverIds, candidates, poolSize, waitsAll, candidates_list,
                   summary>>
    /\ UNCHANGED <<login, logins, sent, rootFiles>>
    /\ UNCHANGED <<fetchVars, mincVars, bidsVars, cliVars>>

\* process_function(candidates[i]) is in a process_api_get whose request
\* never gets an expected answer: the loop has no end.
JobStall(i) ==
    /\ mainPc = "map"
    /\ job[i] = "running"
    /\ job' = [job EXCEPT ![i] = "stalled"]
    /\ \E part \in PartialTouch(imaging_format, candidates[i]) :
          touched' = [touched EXCEPT ![i] = part]
    /\ UNCHANGED <<mainPc, exitCode, token, imaging_format, specified_candidates,
                   serverIds, candidates, poolSize, waitsAll, candidates_list,
                   summary>>
    /\ UNCHANGED <<login, logins, sent, rootFiles>>
    /\ UNCHANGED <<fetchVars, mincVars, bidsVars, cliVars>>

\* worker_pool.map returns the results: each is appended to candidates_list.
Collected(results) == results
RunMapReturns ==
    /\ mainPc = "map"
    /\ \A i \in Tasks : job[i] = "returned"
    /\ candidates_list' = Collected([i \in Tasks |-> candidates[i]])
    /\ mainPc' = "summary"
    /\ UNCHANGED <<exitCode, token, imaging_format, specified_candidates,
                   serverIds, candidates, poolSize, waitsAll, job, summary>>
    /\ UNCHANGED <<login, logins, sent, rootFiles, touched>>
    /\ UNCHANGED <<fetchVars, mincVars, bidsVars, cliVars>>

\* worker_pool.map raises the exception of a task: nothing catches it, the
\* script ends with the traceback and the worker processes end with it.
RunMapRaises ==
    /\ mainPc = "map"
    /\ \E i \in Tasks : job[i] = "raised"
    /\ waitsAll => \A i \in Tasks : Over(i)
    /\ job' = [i \in Tasks |-> IF Over(i) THEN job[i] ELSE "killed"]
    /\ Exit(1)
    /\ UNCHANGED <<token, imaging_format, specified_candidates, serverIds,
                   candidates, poolSize, waitsAll, candidates_list, summary>>
    /\ UNCHANGED <<login, logins, sent, rootFiles, touched>>
    /\ UNCHANGED <<fetchVars, mincVars, bidsVars, cliVars>>

\* worker_pool.close(), the final message and exit(0).
RunSummary ==
    /\ mainPc = "summary"
    /\ summary' = <<[completed |-> Len(candidates_list),
                     requested |-> Len(candidates)]>>
    /\ Exit(0)
    /\ UNCHANGED <<token, imaging_format, specified_candidates, serverIds,
                   candidates, poolSize, waitsAll, job, candidates_list>>
    /\ UNCHANGED <<login, logins, sent, rootFiles, touched>>
    /\ UNCHANGED <<fetchVars, mincVars, bidsVars, cliVars>>

NextRun ==
    \/ RunLogin
    \/ RunFetchRoot
    \/ RunCreateList
    \/ RunFilter
    \/ RunDispatch
    \/ \E i \in Tasks : JobStart(i)
    \/ \E i \in Tasks : JobReturn(i)
    \/ \E i \in Tasks : JobRaise(i)
    \/ \E i \in Tasks : JobStall(i)
    \/ RunMapReturns
    \/ RunMapRaises
    \/ RunSummary

SpecRun == InitRun /\ [][NextRun]_vars

\* The script and its worker processes do not stop while there is a step
\* they can take: a worker process that is free takes the next chunk, a
\* process function that runs returns, raises or gets stuck. The run is
\* one of every candidate of the server, in the bids format.
InitStall ==
    /\ InitRun
    /\ imaging_format = "bids"
    /\ specified_candidates = {}
    /\ serverIds = EntityList
SpecRunFair == InitStall /\ [][NextRun]_vars /\ WF_vars(NextRun)

(***************************************************************************)
(* create_bids_candidates_list: the fold of the manifest of the bids       *)
(* format into candidates['Candidates'].                                   *)
(***************************************************************************)
\* A dictionary without keys, and d[k] = v.
EmptyDict == [k \in {} |-> <<>>]
DictSet(d, k, v) == [x \in DOMAIN d \cup {k} |-> IF x = k THEN v ELSE d[x]]

\* An item of file_manifest['SessionFiles']; n tells two answers of the
\* server for the same session apart.
SessionRecord(c, v, n) ==
    [Candidate |-> c, Visit |-> v,
     TsvLink |-> <<"tsv", c, v, n>>, JsonLink |-> <<"json", c, v, n>>]
\* An item of file_manifest['Images'], as the pairs (key, value) of its
\* JSON object in their order.
ImageRecord(c, v, folder, n) ==
    << <<"Candidate", c>>, <<"PSCID", "PSCID">>, <<"Visit", v>>,
       <<"LorisScanType", "t1w">>, <<"Subfolder", folder>>,
       <<"NiftiLink", <<"nii", c, v, folder, n>> >>,
       <<"JsonLink", <<"json", c, v, folder, n>> >> >>
\* image[key]
Field(image, key) ==
    image[CHOOSE i \in 1..Len(image) : image[i][1] = key][2]
\* The properties of an image that are not links.
MetaKeys == {"Candidate", "PSCID", "Visit", "LorisScanType", "Subfolder"}
\* [property for property in image.keys() if property not in [...]], and
\* image[link] for each.
LinkPairs(image) == SelectSeq(image, LAMBDA p : p[1] \notin MetaKeys)
LinksOf(image) == [i \in 1..Len(LinkPairs(image)) |-> LinkPairs(image)[i][2]]

\* The sessions and the images the server may list.
SessionRecords ==
    {SessionRecord("c1", "V1", 1), SessionRecord("c1", "V1", 2),
     SessionRecord("c1", "V2", 1), SessionRecord("c2", "V1", 1)}
ImageRecords ==
    {ImageRecord("c1", "V1", "anat", 1), ImageRecord("c1", "V1", "anat", 2),
     ImageRecord("c1", "V1", "func", 1), ImageRecord("c1", "V2", "anat", 1),
     ImageRecord("c2", "V1", "anat", 1)}
SeqsUpTo(S, n) == UNION {[1..k -> S] : k \in 0..n}

\* {"Files": [session['TsvLink'], session['JsonLink']], "Folders": {}}
NewVisit(session) ==
    [Files |-> <<session.TsvLink, session.JsonLink>>, Folders |-> EmptyDict]
\* ...['Folders'][image['Subfolder']].append(image[link]) for every link
Replaced(list, links) == links
Appended(list, links) == list \o links

InitBids ==
    /\ InitFetch({}, {})
    /\ manifest = [v \in {} |-> <<>>]
    /\ MincOff
    /\ mainPc = "off"
    /\ exitCode = <<>>
    /\ token = ""
    /\ imaging_format = "bids"
    /\ specified_candidates = {}
    /\ serverIds = <<>>
    /\ candidates = <<>>
    /\ poolSize = 1
    /\ waitsAll = TRUE
    /\ job = <<>>
    /\ candidates_list = <<>>
    /\ summary = <<>>
    /\ login = ""
    /\ logins = 0
    /\ sent = {}
    /\ rootFiles = {}
    /\ touched = <<>>
    /\ file_manifest \in [SessionFiles : SeqsUpTo(SessionRecords, MaxSessions),
                          Images : SeqsUpTo(ImageRecords, MaxImages)]
    /\ bidsCandidates = EmptyDict
    /\ bpc = "sessions"
    /\ bi = 1
    /\ CliOff

\* for session in file_manifest['SessionFiles']: the candidate is added
\* with the visit, or the visit is set in the candidate that is there.
BidsFoldSession ==
    /\ bpc = "sessions"
    /\ IF bi <= Len(file_manifest.SessionFiles)
       THEN LET session == file_manifest.SessionFiles[bi]
            IN /\ bidsCandidates' =
                     IF session.Candidate \notin DOMAIN bidsCandidates
                     THEN DictSet(bidsCandidates, session.Candidate,
                                  [CandID |-> session.Candidate,
                                   Visits |-> DictSet(EmptyDict, session.Visit,
                                                      NewVisit(session))])
                     ELSE [bidsCandidates EXCEPT ![session.Candidate].Visits =
                              DictSet(@, session.Visit, NewVisit(session))]
               /\ bi' = bi + 1
               /\ UNCHANGED bpc
       ELSE /\ bpc' = "images"
            /\ bi' = 1
            /\ UNCHANGED bidsCandidates
    /\ UNCHANGED file_manifest
    /\ UNCHANGED <<fetchVars, mincVars, runVars, cliVars>>

\* The candidate and the visit of the image are in candidates['Candidates'].
Known(image) ==
    /\ Field(image, "Candidate") \in DOMAIN bidsCandidates
    /\ Field(image, "Visit") \in DOMAIN bidsCandidates[Field(image, "Candidate")].Visits

\* for image in file_manifest['Images']: the list of the category is made
\* when it is not there, and gets every link of the image; a KeyError ends
\* the function when the session of the image was not listed.
BidsFoldImage ==
    /\ bpc = "images"
    /\ IF bi <= Len(file_manifest.Images)
       THEN LET image == file_manifest.Images[bi]
                c == Field(image, "Candidate")
                v == Field(image, "Visit")
                folder == Field(image, "Subfolder")
            IN IF Known(image)
               THEN LET folders == bidsCandidates[c].Visits[v].Folders
                        list == IF folder \in DOMAIN folders
                                THEN folders[folder] ELSE <<>>
                    IN /\ bidsCandidates' =
                             [bidsCandidates EXCEPT ![c].Visits[v].Folders =
                                 DictSet(@, folder, Appended(list, LinksOf(image)))]
                       /\ bi' = bi + 1
                       /\ UNCHANGED bpc
               ELSE /\ bpc' = "raised"
                    /\ UNCHANGED <<bidsCandidates, bi>>
       ELSE /\ bpc' = "done"
            /\ UNCHANGED <<bidsCandidates, bi>>
    /\ UNCHANGED file_manifest
    /\ UNCHANGED <<fetchVars, mincVars, runVars, cliVars>>

NextBids ==
    \/ BidsFoldSession
    \/ BidsFoldImage

SpecBids == InitBids /\ [][NextBids]_vars

(***************************************************************************)
(* Claims about process_api_get and get_file, checked under Spec.          *)
(***************************************************************************)
\* A step that is one session_object.get of the running process_api_get.
IsGet == pc = "api" /\ attempts' = attempts + 1

\* get_file has returned and its caller has not resumed yet.
Returned == pc = "returned"

\* The paths get_file works on are as they were when the call began.
Untouched == body[argFile] = entry.body /\ sidecar[argFile] = entry.sidecar

\* C1 as stated: a response whose status is not in the acceptable set is
\* final: process_api_get returns it to its caller and does not re-issue
\* the request.
C1_Original ==
    [][(IsGet /\ last'.kind = "response" /\ last'.status \notin req.expected)
          => (pc' = ret /\ resp' = last')]_vars

\* C1 amended: a response whose status is not in the acceptable set is not
\* returned: process_api_get stays in its loop with the same request, and
\* what its caller gets is a response with an acceptable status.
C1_RejectedStatusIsRetried ==
    [][IsGet /\ last'.kind = "response"
          => IF last'.status \in req.expected
             THEN pc' = ret
             ELSE pc' = "api" /\ req' = req /\ resp' = resp
                  /\ body' = body /\ sidecar' = sidecar]_vars

C1_Witness ==
    pc = "api" /\ last.kind = "response" /\ last.status \notin req.expected

\* C2: a transport failure is followed by the same request (same URL, same
\* headers) however many failed before, it never reaches the caller, and
\* the first response with an acceptable status is returned at once: no
\* request is issued outside the loop.
C2_TransportFailureIsRetried ==
    /\ [](pc # "raised")
    /\ [][(attempts' = attempts + 1)
            => /\ pc = "api"
               /\ last'.kind = "exception"
                     => pc' = "api" /\ req' = req /\ resp' = resp
               /\ (last'.kind = "response" /\ last'.status \in req.expected)
                     => pc' = ret /\ resp' = last' /\ req' = req]_vars

C2_Witness ==
    pc = "api" /\ last.kind = "exception" /\ last.name = "ConnectionError"
               /\ attempts = MaxAttempts

\* C3: a get_file with ETag checking that finds the sidecar holding the
\* token of the remote version, the remote not changing meanwhile, returns
\* "Current", writes no body bytes and leaves body and sidecar as they were.
C3_UnchangedIsCurrent ==
    (Returned /\ argEtag /\ entry.sidecar = Token(entry.ver) /\ ~entry.changed)
       => outcome = "Current" /\ ~wrote /\ Untouched

C3_Witness ==
    /\ Returned /\ argEtag /\ ~entry.changed
    /\ entry.sidecar = Token(entry.ver) /\ entry.body = Body(entry.ver)
    /\ outcome = "Current" /\ Untouched

\* C4: a get_file with ETag checking that finds no sidecar takes the plain
\* GET, writes the body and the sidecar again and returns "New", also when
\* the body is there and the remote content is unchanged.
C4_NoSidecarIsNew ==
    (Returned /\ argEtag /\ entry.sidecar = NoFile)
       => /\ outcome = "New" /\ wrote
          /\ req.headers = NoHeaders /\ req.expected = {200}
          /\ body[argFile] = resp.content
          /\ sidecar[argFile] = resp.etag

C4_Witness ==
    /\ Returned /\ argEtag /\ outcome = "New"
    /\ entry.crash.pc = "sidecar_deleted" /\ entry.sidecar = NoFile
    /\ entry.body = Body(entry.ver) /\ ~entry.changed
    /\ body[argFile] = entry.body /\ sidecar[argFile] = Token(entry.ver)

\* C5: get_file returns "New" exactly when it wrote body bytes and
\* "Current" exactly when its conditional GET was answered 304; without
\* ETag checking it issues the plain GET accepting only 200, writes the
\* body and returns "New".
C5_OutcomeMatchesWrite ==
    Returned
       => /\ outcome \in {"New", "Current"}
          /\ outcome = "New" <=> wrote
          /\ outcome = "Current" <=> (req.headers # NoHeaders /\ resp.status = 304)
          /\ wrote => body[argFile] = resp.content /\ resp.status = 200
          /\ ~wrote => body[argFile] = entry.body
          /\ ~argEtag => /\ req.headers = NoHeaders /\ req.expected = {200}
                         /\ outcome = "New"

C5_Witness ==
    Returned /\ ~argEtag /\ outcome = "New" /\ wrote
             /\ entry.sidecar = Token(entry.ver) /\ entry.body = Body(entry.ver)

\* C6 as stated: after any body write of get_file the sidecar of the file
\* is freshly written and holds the token of the response that was written.
C6_Original ==
    (Returned /\ wrote) => sidecar[argFile] = resp.etag

\* C6 amended: after a body write of a get_file called with ETag checking,
\* the sidecar is freshly written (none exists while the body is written)
\* and holds the token of the response whose body was written.
C6_SidecarFollowsBody ==
    /\ (argEtag /\ pc \in {"open_body", "write_body", "open_etag"})
          => sidecar[argFile] = NoFile
    /\ (Returned /\ wrote /\ argEtag)
          => /\ sidecar[argFile] = resp.etag
             /\ body[argFile] = resp.content
             /\ resp.etag = Token(resp.content.ver)

C6_Witness ==
    /\ Returned /\ wrote /\ argEtag
    /\ entry.sidecar = Token(1) /\ sidecar[argFile] = Token(MaxVer)
    /\ body[argFile] = Body(MaxVer)

\* C7: a kill between the body write and the sidecar write of a get_file
\* with ETag checking leaves a body and no sidecar; the next get_file with
\* ETag checking of that file takes the plain GET, returns "New" and ends
\* with the body and the sidecar of one server version, the current one
\* when the remote did not change meanwhile.
C7_CrashBeforeSidecar ==
    /\ (pc = "idle" /\ crashed.pc = "open_etag" /\ crashed.etag)
          => body[crashed.file].kind = "body" /\ sidecar[crashed.file] = NoFile
    /\ (Returned /\ argEtag /\ entry.crash.pc = "open_etag" /\ entry.crash.etag)
          => /\ entry.crash.file = argFile
             /\ req.headers = NoHeaders
             /\ outcome = "New"
             /\ body[argFile] = resp.content
             /\ sidecar[argFile] = Token(resp.content.ver)
             /\ resp.content.ver \in entry.ver..serverVer[argUrl]
             /\ ~entry.changed => resp.content = Body(serverVer[argUrl])

C7_Witness ==
    /\ Returned /\ argEtag /\ entry.crash.pc = "open_etag" /\ entry.crash.etag
    /\ outcome = "New" /\ body[argFile] = entry.body
    /\ sidecar[argFile] = Token(serverVer[argUrl])

(***************************************************************************)
(* Claims about process_minc_func, checked under SpecMinc.                 *)
(***************************************************************************)
\* The images the server lists for the candidate.
ListedImages == {p \in AllImages : p.file[2] <= Len(manifest[p.visit])}

\* The output tree of a run of process_minc_func that nothing interrupts:
\* every listed image with its sidecar and its QC file, the folders of the
\* visits with images, candidate.json and their session.json.
TreeComplete ==
    /\ \A p \in AllImages :
          IF p \in ListedImages
          THEN /\ body[p] = Body(serverVer[ImageUrl(p.visit, p.file)])
               /\ sidecar[p] = Token(serverVer[ImageUrl(p.visit, p.file)])
               /\ body[QcPath(p.visit, p.file)] = Body(serverVer[QcUrl(p.visit, p.file)])
          ELSE /\ body[p] = NoFile /\ sidecar[p] = NoFile
               /\ body[QcPath(p.visit, p.file)] = NoFile
    /\ dirs = {CandDir} \cup {VisitDir(v) : v \in {w \in Labels : manifest[w] # <<>>}}
    /\ tree[CandidateJsonPath] = CandidateJson
    /\ \A v \in Labels :
          tree[SessionJsonPath(v)] = IF manifest[v] # <<>> THEN Meta(v).Meta ELSE NoFile

\* A run that is never killed, and every rerun of it, ends with the complete tree.
MincUninterruptedTree == (wpc = "done" /\ ~killed) => TreeComplete

\* C8: a run that was killed at some point and restarted, the remote being
\* unchanged, ends with the tree of the uninterrupted run: the same images,
\* QC files, sidecars and JSON files.
C8_IdempotentRestart == (wpc = "done" /\ killed) => TreeComplete

\* C9: in a run of process_minc_func the QC of an image is fetched once for
\* each image get_file that returned "New" and not at all when it returned
\* "Current"; the QC get_file is called without ETag checking, after the
\* image get_file (called with ETag checking) has returned.
C9_QcOncePerNew ==
    /\ \A p \in AllImages :
          /\ qcCount[p] <= newCount[p]
          /\ newCount[p] <= qcCount[p] + 1
          /\ qcCount[p] < newCount[p] => wpc = "qc" /\ pc = "idle"
          /\ wpc = "done" => qcCount[p] = newCount[p]
    /\ argUrl.api = "qc"
          => /\ ~argEtag /\ wpc = "qc_wait"
             /\ qcCount[ImagePath(argFile.visit, argFile.file)] >= 1
    /\ argUrl.api = "image" => argEtag /\ wpc = "image"

C9_Witness ==
    /\ wpc = "done"
    /\ \E p, q \in ListedImages :
          /\ newCount[p] = 1 /\ qcCount[p] = 1
          /\ newCount[q] = 0 /\ qcCount[q] = 0

(***************************************************************************)
(* Claims about the script, checked under SpecRun.                         *)
(***************************************************************************)
\* A run in which process_function raised ends with the traceback of the
\* exception: exit code 1 and no summary.
RunRaiseEndsWithoutSummary ==
    (mainPc = "exit" /\ \E i \in Tasks : job[i] = "raised")
       => exitCode = <<1>> /\ summary = <<>>

\* C10: when process_function raises for one dispatched candidate, the
\* calls for every other dispatched candidate still return, and the script
\* still ends with the summary, in which the completed count is below the
\* requested count.
C10_FailureIsolated ==
    (mainPc = "exit" /\ \E i \in Tasks : job[i] = "raised")
       => /\ \A k \in Tasks : job[k] # "raised" => job[k] = "returned"
          /\ summary # <<>>
          /\ summary[1].completed < summary[1].requested

\* The number of CandIDs the caller asked for: those of the -c option when
\* it was given, every candidate of the server otherwise.
AskedFor ==
    IF specified_candidates # {} THEN Cardinality(specified_candidates)
    ELSE Len(serverIds)
\* The process functions that returned.
ReturnedJobs == {i \in Tasks : job[i] = "returned"}

\* C11: a run that reaches its end prints the summary completed/requested:
\* completed is the number of candidates whose process function returned,
\* requested is the number of CandIDs of the -c option when it was given
\* and the number of candidates of the server otherwise, so that a CandID
\* asked for and not downloaded shows as a difference of the two counts.
C11_SummaryCounts ==
    (mainPc = "exit" /\ exitCode = <<0>>)
       => /\ summary # <<>>
          /\ summary[1].completed = Cardinality(ReturnedJobs)
          /\ summary[1].requested = AskedFor

\* What the script prints: the candidates the filter kept, on both sides.
SummaryCountsKept ==
    (mainPc = "exit" /\ exitCode = <<0>>)
       => /\ summary # <<>>
          /\ summary[1].completed = Cardinality(ReturnedJobs)
          /\ summary[1].requested = Len(candidates)
          /\ summary[1].completed = summary[1].requested

\* The states of the orchestrator a position of the script stands for.
Stage ==
    CASE mainPc = "login" -> 1                       \* Unauthenticated
      [] mainPc = "create_list" -> 2                 \* Authenticated
      [] mainPc = "filter" -> 3                      \* ManifestBuilt
      [] mainPc \in {"dispatch", "map"} -> 4         \* Materializing
      [] mainPc = "summary" -> 5                     \* Done
      [] OTHER -> 6                                  \* the script has exited

\* C12: the script only moves forward through Unauthenticated,
\* Authenticated, ManifestBuilt, Materializing, Done; it ends with a
\* failure only from Unauthenticated (exit code 3) or from ManifestBuilt
\* (exit codes 1 and 2), and with exit code 0 only from Done.
C12_StateMachine ==
    [][/\ Stage' >= Stage
       /\ (mainPc # "exit" /\ mainPc' = "exit")
             => \/ Stage = 1 /\ exitCode' = <<3>>
                \/ Stage = 3 /\ exitCode' \in {<<1>>, <<2>>}
                \/ Stage = 5 /\ exitCode' = <<0>>]_vars

\* C13: when the login POST produces anything but a status 200, an
\* exception included, the script exits with code 3, the token is never
\* set and no GET is ever sent.
C13_LoginFailure ==
    login \notin {"", "200"}
       => /\ mainPc = "exit" /\ exitCode = <<3>>
          /\ token = ""
          /\ sent = {}
          /\ candidates = <<>> /\ job = <<>> /\ rootFiles = {}

C13_Witness ==
    /\ login = "401"
    /\ mainPc = "exit" /\ exitCode = <<3>>
    /\ logins = 1

\* The -c option was given and no candidate of the server is in it.
NoMatch ==
    /\ specified_candidates # {}
    /\ \A i \in 1..Len(serverIds) :
          IntOf(serverIds[i].CandID) \notin specified_candidates
\* The folders made under base_directory.
DirsMade == UNION {touched[i].dirs : i \in DOMAIN touched}

\* C14: when the -c option is given and matches no candidate of the
\* server, the script exits with code 2 before any candidate is
\* dispatched, and no folder is made under base_directory in either format.
C14_EmptyFilter ==
    (NoMatch /\ login = "200")
       => /\ mainPc \in {"create_list", "filter", "exit"}
          /\ mainPc = "exit" => exitCode = <<2>>
          /\ job = <<>>
          /\ DirsMade = {}

C14_Witness ==
    /\ NoMatch
    /\ specified_candidates = Outsiders
    /\ serverIds # <<>>
    /\ imaging_format = "bids"
    /\ mainPc = "exit" /\ exitCode = <<2>>
    /\ {f.name : f \in rootFiles} = RootFiles

\* The visits of the candidate for which the server lists an image.
VisitsWithImages == {v \in Labels : manifest[v] # <<>>}
\* process_minc_func is past the filter of the visits.
PastFilter ==
    wpc \in {"candidate_json", "visit_dir", "session_json", "fetch", "image",
             "qc", "qc_wait", "done"}

\* C15: once the visits are filtered, candidate['Visits'] holds exactly the
\* visits with at least one Filename; the folder of a visit and its
\* session.json are made for those visits only, and a candidate without
\* any image still gets its folder and candidate.json.
C15_EmptyVisitsFiltered ==
    /\ PastFilter
          => /\ {candidate[i].visit : i \in 1..Len(candidate)} = VisitsWithImages
             /\ \A i \in 1..Len(candidate) : candidate[i].Filenames # <<>>
    /\ \A v \in Labels :
          (VisitDir(v) \in dirs \/ tree[SessionJsonPath(v)] # NoFile)
             => v \in VisitsWithImages
    /\ wpc = "done"
          => /\ dirs = {CandDir} \cup {VisitDir(v) : v \in VisitsWithImages}
             /\ tree[CandidateJsonPath] # NoFile
             /\ \A v \in VisitsWithImages : tree[SessionJsonPath(v)] # NoFile

C15_Witness ==
    /\ wpc = "done"
    /\ Len(manifest["V1"]) = 1 /\ manifest["V2"] = <<>>
    /\ dirs = {CandDir, VisitDir("V1")}
    /\ body[ImagePath("V1", FileName(1))] # NoFile
    /\ tree[SessionJsonPath("V1")] # NoFile
    /\ tree[SessionJsonPath("V2")] = NoFile

\* C17 as stated: candidate.json holds the fields CandID, Site, DoB,
\* Gender, Language and Project of the candidate and no other field.
C17_Original ==
    tree[CandidateJsonPath] # NoFile
       => DOMAIN tree[CandidateJsonPath]
             = {"CandID", "Site", "DoB", "Gender", "Language", "Project"}

\* C17: candidate.json holds the fields CandID, PSCID, Site, DoB, Gender,
\* Language and Project of the candidate, with the values the candidate
\* has for them, and no other field.
C17_CandidateJsonFields ==
    tree[CandidateJsonPath] # NoFile
       => /\ DOMAIN tree[CandidateJsonPath]
                = {"CandID", "PSCID", "Site", "DoB", "Gender", "Language", "Project"}
          /\ \A k \in DOMAIN tree[CandidateJsonPath] :
                tree[CandidateJsonPath][k] = CandidateRecord[k]

C17_Witness ==
    /\ wpc = "visit_dir"
    /\ ~killed
    /\ tree[CandidateJsonPath] # NoFile
    /\ "PSCID" \in DOMAIN tree[CandidateJsonPath]

\* C18: a run sends one login POST; the token is set once, by the login
\* that succeeded, and never changes afterwards; every GET sent after it,
\* by the script and by every job of the worker processes, carries it.
C18_OneLoginOneToken ==
    /\ [](/\ logins <= 1
          /\ mainPc # "login" => logins = 1
          /\ token # "" => login = "200"
          /\ \A g \in sent : token # "" /\ g.headers = Bearer(token))
    /\ [][token # "" => token' = token]_vars

C18_Witness ==
    /\ logins = 1
    /\ token # ""
    /\ \E g, h \in sent : g.by = 0 /\ h.by > 0
    /\ mainPc = "exit" /\ exitCode = <<0>>

\* C19: whatever the interleaving of the jobs of the worker processes, no
\* folder and no file is made, written or deleted by two of them.
C19_DisjointPaths ==
    \A i, j \in DOMAIN touched :
       i # j => /\ touched[i].dirs \cap touched[j].dirs = {}
                /\ touched[i].files \cap touched[j].files = {}
                /\ touched[i].dirs \cap touched[j].files = {}

C19_Witness ==
    /\ poolSize > 1
    /\ \E i, j \in DOMAIN touched :
          /\ i # j
          /\ job[i] = "running" /\ job[j] = "returned"
          /\ \E k \in DOMAIN touched : k # j /\ touched[k].dirs # {}
          /\ touched[j].files # {}

(***************************************************************************)
(* Claims about create_bids_candidates_list, checked under SpecBids.       *)
(***************************************************************************)
IsPrefix(s, t) == Len(s) <= Len(t) /\ SubSeq(t, 1, Len(s)) = s

RECURSIVE LinksFor(_, _, _, _)
\* The links of the images of candidate c, visit v and category folder,
\* in the order of the manifest.
LinksFor(images, c, v, folder) ==
    IF images = <<>> THEN <<>>
    ELSE LET image == Head(images)
         IN (IF /\ Field(image, "Candidate") = c
                /\ Field(image, "Visit") = v
                /\ Field(image, "Subfolder") = folder
             THEN LinksOf(image) ELSE <<>>)
                \o LinksFor(Tail(images), c, v, folder)

\* The categories of the images of candidate c and visit v.
FoldersFor(images, c, v) ==
    {Field(images[i], "Subfolder") :
        i \in {k \in 1..Len(images) : /\ Field(images[k], "Candidate") = c
                                      /\ Field(images[k], "Visit") = v}}
\* The last item of SessionFiles for candidate c and visit v.
LastSession(sessions, c, v) ==
    sessions[CHOOSE i \in 1..Len(sessions) :
                /\ sessions[i].Candidate = c /\ sessions[i].Visit = v
                /\ \A k \in (i + 1)..Len(sessions) :
                      ~(sessions[k].Candidate = c /\ sessions[k].Visit = v)]

\* The fold ended with one visit record for every (candidate, visit) of
\* SessionFiles, where each category holds every link of its images in
\* the order of the manifest.
Accumulated ==
    bpc = "done"
       => /\ {<<file_manifest.SessionFiles[i].Candidate,
                  file_manifest.SessionFiles[i].Visit>> :
                      i \in 1..Len(file_manifest.SessionFiles)}
                = UNION {{<<c, v>> : v \in DOMAIN bidsCandidates[c].Visits} :
                            c \in DOMAIN bidsCandidates}
          /\ \A c \in DOMAIN bidsCandidates :
                \A v \in DOMAIN bidsCandidates[c].Visits :
                   LET record == bidsCandidates[c].Visits[v]
                   IN /\ DOMAIN record.Folders = FoldersFor(file_manifest.Images, c, v)
                      /\ \A f \in DOMAIN record.Folders :
                            record.Folders[f] = LinksFor(file_manifest.Images, c, v, f)

\* A step of the fold keeps every visit record that is there, and every
\* list of a category of it as the beginning of the list it has afterwards.
FoldersKept ==
    \A c \in DOMAIN bidsCandidates :
       \A v \in DOMAIN bidsCandidates[c].Visits :
          /\ c \in DOMAIN bidsCandidates'
          /\ v \in DOMAIN bidsCandidates'[c].Visits
          /\ \A f \in DOMAIN bidsCandidates[c].Visits[v].Folders :
                /\ f \in DOMAIN bidsCandidates'[c].Visits[v].Folders
                /\ IsPrefix(bidsCandidates[c].Visits[v].Folders[f],
                            bidsCandidates'[c].Visits[v].Folders[f])

\* C16 as stated: the records of one (candidate, visit) are merged in one
\* visit record and never overwrite what was folded for it before; a
\* category of several records accumulates their links in order.
C16_Original ==
    [][/\ Accumulated'
       /\ FoldersKept
       /\ \A c \in DOMAIN bidsCandidates :
             \A v \in DOMAIN bidsCandidates[c].Visits :
                bidsCandidates'[c].Visits[v].Files
                   = bidsCandidates[c].Visits[v].Files]_vars

\* C16: the records of one (candidate, visit) are merged in one visit
\* record; an image record never overwrites what was folded before, and a
\* category of several records accumulates their links in order; a second
\* session record of a (candidate, visit) replaces the Files of its visit
\* record, whose Folders are still empty then, so that Files ends as the
\* two links of the last session record.
C16_FoldMerges ==
    /\ []Accumulated
    /\ [](bpc = "done"
             => \A c \in DOMAIN bidsCandidates :
                   \A v \in DOMAIN bidsCandidates[c].Visits :
                      bidsCandidates[c].Visits[v].Files
                         = NewVisit(LastSession(file_manifest.SessionFiles, c, v)).Files)
    /\ [][/\ FoldersKept
          /\ \A c \in DOMAIN bidsCandidates :
                \A v \in DOMAIN bidsCandidates[c].Visits :
                   bidsCandidates'[c].Visits[v].Files # bidsCandidates[c].Visits[v].Files
                      => /\ bpc = "sessions"
                         /\ file_manifest.SessionFiles[bi].Candidate = c
                         /\ file_manifest.SessionFiles[bi].Visit = v
                         /\ bidsCandidates[c].Visits[v].Folders = EmptyDict
                         /\ bidsCandidates'[c].Visits[v]
                               = NewVisit(file_manifest.SessionFiles[bi])]_vars

C16_Witness ==
    /\ bpc = "done"
    /\ Len(file_manifest.SessionFiles) = 2
    /\ file_manifest.SessionFiles[1].Visit = file_manifest.SessionFiles[2].Visit
    /\ file_manifest.SessionFiles[1].Candidate = file_manifest.SessionFiles[2].Candidate
    /\ file_manifest.SessionFiles[1] # file_manifest.SessionFiles[2]
    /\ \E c \in DOMAIN bidsCandidates :
          \E v \in DOMAIN bidsCandidates[c].Visits :
             \E f \in DOMAIN bidsCandidates[c].Visits[v].Folders :
                Len(bidsCandidates[c].Visits[v].Folders[f]) = 4

(***************************************************************************)
(* Claims about the worker pool, checked under SpecRunFair.                *)
(***************************************************************************)
\* Job k waits for a worker process.
Queued(k) == k \in DOMAIN job /\ job[k] = "queued"
\* The chunks whose worker process is stuck in a process_api_get.
StalledChunks == {ChunkOf(i) : i \in {k \in Tasks : job[k] = "stalled"}}
\* Job k cannot be taken any more: every worker process is stuck, or the
\* one that has its chunk is stuck on a job before it.
Blocked(k) ==
    \/ Cardinality(StalledChunks) >= poolSize
    \/ \E i \in Tasks : i < k /\ ChunkOf(i) = ChunkOf(k) /\ job[i] = "stalled"

Wanted(c) ==
    specified_candidates = {} \/ IntOf(c.CandID) \in specified_candidates
\* The candidates of the server the caller wants, in the order of the server.
WantedList == SelectSeq(serverIds, Wanted)
\* The script is past the filter.
Filter_Done == login = "200" /\ mainPc \notin {"login", "create_list", "filter"}

\* C21: with the -c option the candidates handed to the pool are exactly
\* the candidates of the server whose CandID is in it, and no folder or
\* file of another candidate is made; without it every candidate of the
\* server is handed to the pool.
C21_FilterSelects ==
    Filter_Done
       => /\ candidates = WantedList
          /\ specified_candidates = {} => candidates = serverIds
          /\ job # <<>> => DOMAIN job = DOMAIN candidates
          /\ \A i \in DOMAIN touched :
                \A p \in touched[i].dirs \cup touched[i].files :
                   /\ Wanted(candidates[i])
                   /\ IsPrefix(EntityDir(imaging_format, candidates[i]), p)

C21_Witness ==
    /\ specified_candidates = {1200001, 1200002}
    /\ serverIds = EntityList
    /\ mainPc = "exit" /\ exitCode = <<0>>
    /\ Len(job) = 2
    /\ \A i \in Tasks : touched[i] = JobTouch(imaging_format, serverIds[i])


(***************************************************************************)
(* The dataset files of the categorized layout                             *)
(***************************************************************************)
\* The dataset files get_file has been called for.
RootNames == {f.name : f \in rootFiles}

\* C22: in the bids format the five dataset files (dataset_description.json,
\* README, .bids-validator-config.json, participants.tsv, participants.json)
\* are each fetched by create_bids_candidates_list with ETag checking, and
\* all five are fetched before the filter of the candidates is applied and
\* before any process function starts.
C22_RootFilesFirst ==
    /\ \A f \in rootFiles : f.etag_checking /\ f.name \in RootFiles
    /\ (imaging_format = "bids" /\ RootNames # RootFiles)
          => /\ mainPc \in {"login", "create_list", "exit"}
             /\ mainPc = "exit" => exitCode = <<3>>
             /\ candidates = <<>>
             /\ job = <<>>
             /\ \A g \in sent : g.by = 0
    /\ rootFiles # {} => imaging_format = "bids" /\ login = "200"

C22_Witness ==
    /\ imaging_format = "bids"
    /\ Cardinality(rootFiles) = 5
    /\ specified_candidates # {}
    /\ mainPc = "map"
    /\ \E i \in Tasks : job[i] = "running"
    /\ Len(candidates) < Len(serverIds)


(***************************************************************************)
(* The sidecar and the body of a file                                      *)
(***************************************************************************)
\* The body of f is whole and is the version the token in its sidecar
\* names; a sidecar left empty by a kill names none.
SidecarNamesBody(f) ==
    IsFile(sidecar[f])
       => /\ body[f].kind = "body"
          /\ \A v \in Versions : sidecar[f] = Token(v) => body[f] = Body(v)
Consistent == \A f \in DOMAIN sidecar : SidecarNamesBody(f)
\* get_file returned "Current" and the body is the version the server had
\* when it answered 304.
CurrentIsFresh ==
    (Returned /\ outcome = "Current")
       => \E v \in Versions : resp.etag = Token(v) /\ body[argFile] = Body(v)
\* A get_file called without ETag checking is at the write of the body.
PlainWrite == ~argEtag /\ pc \in {"open_body", "write_body"}

\* C23 as stated: whatever get_file calls, changes of the remote file and
\* kills there were, a sidecar that exists comes with a whole body of the
\* version its token names, and "Current" is returned only with the body
\* of the version the server has.
C23_Original == Consistent /\ CurrentIsFresh

\* C23 amended: no sidecar exists at first; every step of a get_file
\* called with ETag checking, every change of the remote file and every
\* kill keeps the sidecars naming whole bodies (the write of the body by a
\* get_file called without ETag checking does not, it leaves the sidecar
\* there is); and while they do, "Current" is returned only with the body
\* of the version the server answered 304 for.
C23_CheckedFetchKeepsSidecar ==
    /\ [](Consistent => CurrentIsFresh)
    /\ [][(Consistent /\ ~PlainWrite) => Consistent']_vars

C23_Witness ==
    /\ Returned /\ outcome = "Current" /\ argEtag
    /\ serverVer[argUrl] = MaxVer
    /\ sidecar[argFile] = Token(MaxVer) /\ body[argFile] = Body(MaxVer)

(***************************************************************************)
(* The responses a get_file call takes                                     *)
(***************************************************************************)
\* process_api_get returns a response to get_file.
Accepted == pc = "api" /\ pc' = ret /\ resp' = last'

\* C27: a get_file call takes exactly one response of process_api_get:
\* none was taken when one is, and one was when the call returns. When the
\* conditional GET of a call with a sidecar is answered 200, no other GET
\* follows, and the body and the sidecar written are those of that answer.
C27_OneAcceptedResponse ==
    /\ [](Returned => Truthy(resp))
    /\ []((Returned /\ req.headers # NoHeaders /\ resp.status = 200)
             => /\ argEtag /\ IsFile(entry.sidecar)
                /\ body[argFile] = resp.content
                /\ sidecar[argFile] = resp.etag)
    /\ [][Accepted => resp = NoResponse]_vars
    /\ [][(pc # "api" /\ pc' = "api") => resp' = NoResponse]_vars

C27_Witness ==
    /\ Returned /\ outcome = "New"
    /\ req.headers = IfNoneMatch(Token(1))
    /\ resp.status = 200 /\ resp.content = Body(MaxVer)
    /\ body[argFile] = Body(MaxVer) /\ sidecar[argFile] = Token(MaxVer)


(***************************************************************************)
(* SpecArgs: the -c option, candidate_argument_checker and parse_args      *)
(***************************************************************************)
\* A value of the command line is a string: the sequence of its characters.
DigitChars == <<"0", "1", "2", "3", "4", "5", "6", "7", "8", "9">>
IsDigit(ch) == \E d \in 1..10 : DigitChars[d] = ch
DigitValue(ch) == (CHOOSE d \in 1..10 : DigitChars[d] = ch) - 1
\* str(n) for n >= 0: what the caller types for the number n.
RECURSIVE Decimal(_)
Decimal(n) ==
    IF n < 10 THEN <<DigitChars[n + 1]>>
    ELSE Decimal(n \div 10) \o <<DigitChars[(n % 10) + 1]>>

\* int(candID) of a string: the blanks around it are dropped, a sign may
\* come first, the rest is decimal digits, at least one; anything else is
\* a ValueError.
RECURSIVE StripLeft(_)
StripLeft(s) == IF s # <<>> /\ Head(s) = " " THEN StripLeft(Tail(s)) ELSE s
RECURSIVE StripRight(_)
StripRight(s) ==
    IF s # <<>> /\ s[Len(s)] = " " THEN StripRight(SubSeq(s, 1, Len(s) - 1))
    ELSE s
RECURSIVE DigitsValue(_)
DigitsValue(s) ==
    IF s = <<>> THEN 0
    ELSE 10 * DigitsValue(SubSeq(s, 1, Len(s) - 1)) + DigitValue(s[Len(s)])
ValueError == [ok |-> FALSE, value |-> 0]
IntParse(raw) ==
    LET t == StripRight(StripLeft(raw))
        signed == t # <<>> /\ t[1] \in {"+", "-"}
        d == IF signed THEN Tail(t) ELSE t
    IN  IF d # <<>> /\ \A i \in 1..Len(d) : IsDigit(d[i])
        THEN [ok |-> TRUE,
              value |-> IF signed /\ t[1] = "-" THEN 0 - DigitsValue(d)
                        ELSE DigitsValue(d)]
        ELSE ValueError

\* if candID >= 9999999 or candID <= 1000000: raise ArgumentTypeError
CandIDMax == 9999999
CandIDMin == 1000000
OutOfRangeBoundsIn(n) == n > CandIDMax \/ n < CandIDMin
OutOfRange(n) == n >= CandIDMax \/ n <= CandIDMin

\* candidate_argument_checker(candID): the int, or ArgumentTypeError.
ArgumentTypeError == [ok |-> FALSE, value |-> 0]
candidate_argument_checker(candID) ==
    LET r == IntParse(candID)
    IN  IF ~r.ok THEN ArgumentTypeError
        ELSE IF OutOfRange(r.value) THEN ArgumentTypeError
        ELSE [ok |-> TRUE, value |-> r.value]

\* The values the caller gives to -c: numbers around the two limits and
\* strings that are no plain number.
ArgSpread == 2
MaxArgs == 2
NearLimits ==
    {CandIDMin + k : k \in (0 - ArgSpread)..ArgSpread}
        \cup {CandIDMax + k : k \in (0 - ArgSpread)..ArgSpread}
        \cup {0, 1200001}
RawValues ==
    {Decimal(n) : n \in NearLimits}
        \cup {<<"-">> \o Decimal(1200001), <<"+">> \o Decimal(1200001),
              <<" ">> \o Decimal(1200001) \o <<" ">>,
              <<"0">> \o Decimal(1200001),
              Decimal(1200001) \o <<".", "0">>,
              <<"1", ",", "2", "0", "0", ",", "0", "0", "1">>,
              <<"a", "b", "c">>, <<>>}

InitArgs ==
    /\ InitFetch({}, {})
    /\ manifest = [v \in {} |-> <<>>]
    /\ MincOff
    /\ mainPc = "parse_args"
    /\ exitCode = <<>>
    /\ token = ""
    /\ imaging_format = "bids"
    /\ specified_candidates = {}
    /\ serverIds = <<>>
    /\ candidates = <<>>
    /\ poolSize = 1
    /\ waitsAll = TRUE
    /\ job = <<>>
    /\ candidates_list = <<>>
    /\ summary = <<>>
    /\ login = ""
    /\ logins = 0
    /\ sent = {}
    /\ rootFiles = {}
    /\ touched = <<>>
    /\ file_manifest = [SessionFiles |-> <<>>, Images |-> <<>>]
    /\ bidsCandidates = [k \in {} |-> <<>>]
    /\ bpc = "off"
    /\ bi = 1
    /\ argv \in UNION {[1..n -> RawValues] : n \in 1..MaxArgs}
    /\ parsed = <<>>
    /\ base_directory = <<>>
    /\ plan = <<>>
    /\ li = 1
    /\ lpc = "off"
    /\ made = {}
    /\ opened = {}

\* parser.parse_args() converts the next value of -c with
\* candidate_argument_checker; on ArgumentTypeError it prints the usage
\* and exits with status 2.
ParseArg ==
    /\ mainPc = "parse_args"
    /\ Len(parsed) < Len(argv)
    /\ LET r == candidate_argument_checker(argv[Len(parsed) + 1])
       IN  IF r.ok
           THEN /\ parsed' = Append(parsed, r.value)
                /\ UNCHANGED <<mainPc, exitCode>>
           ELSE /\ Exit(2)
                /\ UNCHANGED parsed
    /\ UNCHANGED <<token, imaging_format, specified_candidates, serverIds,
                   candidates, poolSize, waitsAll, job, candidates_list,
                   summary, login, logins, sent, rootFiles, touched>>
    /\ UNCHANGED <<argv, base_directory, plan, li, lpc, made, opened>>
    /\ UNCHANGED <<fetchVars, mincVars, bidsVars>>

\* specified_candidates = arguments.candidates, then the prompts for the
\* username and the password.
ParseDone ==
    /\ mainPc = "parse_args"
    /\ Len(parsed) = Len(argv)
    /\ specified_candidates' = {parsed[i] : i \in 1..Len(parsed)}
    /\ mainPc' = "login"
    /\ UNCHANGED <<exitCode, token, imaging_format, serverIds, candidates,
                   poolSize, waitsAll, job, candidates_list, summary, login,
                   logins, sent, rootFiles, touched>>
    /\ UNCHANGED cliVars
    /\ UNCHANGED <<fetchVars, mincVars, bidsVars>>

NextArgs ==
    \/ ParseArg
    \/ ParseDone
    \/ RunLogin

SpecArgs == InitArgs /\ [][NextArgs]_vars

\* The string is an integer above 1000000 and below 9999999.
Acceptable(raw) ==
    /\ IntParse(raw).ok
    /\ 1000000 < IntParse(raw).value
    /\ IntParse(raw).value < 9999999
AllAcceptable == \A i \in 1..Len(argv) : Acceptable(argv[i])

\* C26: a value of -c is accepted exactly when it is an integer above
\* 1000000 and below 9999999; with a value that is not, the script ends
\* in parse_args, before the login, and no value reaches
\* specified_candidates.
C26_ArgumentRange ==
    /\ \A i \in 1..Len(parsed) :
          Acceptable(argv[i]) /\ parsed[i] = IntParse(argv[i]).value
    /\ (Len(parsed) < Len(argv) /\ mainPc = "exit")
          => ~Acceptable(argv[Len(parsed) + 1]) /\ exitCode = <<2>>
    /\ ~AllAcceptable
          => /\ mainPc \in {"parse_args", "exit"}
             /\ login = "" /\ logins = 0 /\ token = ""
             /\ specified_candidates = {}
    /\ (AllAcceptable /\ mainPc # "parse_args")
          => /\ Len(parsed) = Len(argv)
             /\ specified_candidates = {IntParse(argv[i]).value : i \in 1..Len(argv)}
             /\ mainPc = "exit" => exitCode = <<3>>

C26_Witness ==
    /\ argv = <<Decimal(9999998), Decimal(1000001)>>
    /\ specified_candidates = {9999998, 1000001}
    /\ login = "200"


(***************************************************************************)
(* SpecLayout: the paths a process function makes and writes to            *)
(***************************************************************************)
\* A path is a string: the sequence of the pieces it was put together
\* from, "/" being a piece of its own. base_directory + "/%s" % x is
\* base_directory \o <<"/", x>>.
\* The path as the system resolves it: absolute or not, and its names,
\* where "//" is "/" and a "/" at the end is dropped. A name is the pieces
\* between two "/".
RECURSIVE SplitNames(_, _, _)
SplitNames(p, name, names) ==
    IF p = <<>> THEN (IF name = <<>> THEN names ELSE Append(names, name))
    ELSE IF Head(p) = "/"
         THEN SplitNames(Tail(p), <<>>,
                         IF name = <<>> THEN names ELSE Append(names, name))
         ELSE SplitNames(Tail(p), Append(name, Head(p)), names)
Resolve(p) ==
    [absolute |-> p # <<>> /\ p[1] = "/", names |-> SplitNames(p, <<>>, <<>>)]
\* The directory a path is in.
Parent(r) ==
    [r EXCEPT !.names = IF @ = <<>> THEN @ ELSE SubSeq(@, 1, Len(@) - 1)]
\* os.makedirs(p) makes the directory and every directory above it.
WithParents(r) ==
    {[r EXCEPT !.names = SubSeq(@, 1, k)] : k \in 0..Len(r.names)}

\* The values of the -o option: the default os.getcwd() + "/", a path with
\* the "/" at its end the help asks for, the same path without it, "/",
\* and a relative path.
OutputRoots ==
    {<<"/", "cwd", "/">>, <<"/", "out", "/">>, <<"/", "out">>, <<"/">>,
     <<"out", "/">>, <<"out">>}

\* process_minc_func: the paths of os.makedirs and open, and the
\* download_location of get_file.
MincCandDirPath(base, c) == base \o <<"/", c>>
MincCandidateJson(base, c) == base \o <<"/", c, "/", "candidate.json">>
MincVisitDirPath(base, c, v) == base \o <<"/", c, "/", v>>
MincSessionJson(base, c, v) == base \o <<"/", c, "/", v, "/", "session.json">>
MincDest(base, c, v) == base \o <<c, "/", v, "/">>
\* process_bids_func: the paths of os.makedirs and the download_location
\* of get_file.
BidsSubDirPath(base, c) == base \o <<"/", "sub-", c>>
BidsSesDirPath(base, c, v) == base \o <<"/", "sub-", c, "/", "ses-", v>>
BidsCatDirPath(base, c, v, cat) ==
    base \o <<"/", "sub-", c, "/", "ses-", v, "/", cat>>
BidsSesDest(base, c, v) == base \o <<"sub-", c, "/", "ses-", v, "/">>
BidsCatDest(base, c, v, cat) ==
    base \o <<"sub-", c, "/", "ses-", v, "/", cat, "/">>

\* The calls of a process function, in their order.
Makedirs(p) == [op |-> "makedirs", path |-> p, dest |-> <<>>]
Open(p) == [op |-> "open", path |-> p, dest |-> <<>>]
\* get_file(request, download_location, filename, ...) opens
\* download_location + filename.
GetFile(dest, filename) ==
    [op |-> "get_file", path |-> dest \o filename, dest |-> dest]
RECURSIVE Flat(_)
Flat(ss) == IF ss = <<>> THEN <<>> ELSE Head(ss) \o Flat(Tail(ss))

VisitNames == <<"V1", "V2", "V3">>
CategoryNames == <<"anat", "func", "dwi">>
ImageNames == <<"a.mnc", "b.mnc", "c.mnc">>
FirstOf(names, n) ==
    SubSeq(names, 1, IF n < Len(names) THEN n ELSE Len(names))

\* process_minc_func on candidate c with the visits vs of fs files each,
\* every image being new.
MincPlan(base, c, vs, fs) ==
    <<Makedirs(MincCandDirPath(base, c)), Open(MincCandidateJson(base, c))>>
    \o Flat([i \in 1..Len(vs) |->
               <<Makedirs(MincVisitDirPath(base, c, vs[i])),
                 Open(MincSessionJson(base, c, vs[i]))>>])
    \o Flat([i \in 1..Len(vs) |->
               Flat([j \in 1..Len(fs) |->
                       <<GetFile(MincDest(base, c, vs[i]), <<fs[j]>>),
                         GetFile(MincDest(base, c, vs[i]),
                                 <<fs[j], ".qc.json">>)>>])])
\* process_bids_func on candidate c with the visits vs, each with one file
\* of its own and the folders cats of one file each.
BidsPlan(base, c, vs, cats) ==
    <<Makedirs(BidsSubDirPath(base, c))>>
    \o Flat([i \in 1..Len(vs) |->
               <<Makedirs(BidsSesDirPath(base, c, vs[i]))>>
               \o [k \in 1..Len(cats) |->
                     Makedirs(BidsCatDirPath(base, c, vs[i], cats[k]))]])
    \o Flat([i \in 1..Len(vs) |->
               <<GetFile(BidsSesDest(base, c, vs[i]), <<"scans.tsv">>)>>
               \o [k \in 1..Len(cats) |->
                     GetFile(BidsCatDest(base, c, vs[i], cats[k]),
                             <<"image.nii.gz">>)]])

InitLayout ==
    /\ InitFetch({}, {})
    /\ manifest = [v \in {} |-> <<>>]
    /\ MincOff
    /\ mainPc = "off"
    /\ exitCode = <<>>
    /\ token = ""
    /\ imaging_format \in {"bids", "minc"}
    /\ specified_candidates = {}
    /\ serverIds = <<>>
    /\ candidates = <<>>
    /\ poolSize = 1
    /\ waitsAll = TRUE
    /\ job = <<>>
    /\ candidates_list = <<>>
    /\ summary = <<>>
    /\ login = ""
    /\ logins = 0
    /\ sent = {}
    /\ rootFiles = {}
    /\ touched = <<>>
    /\ file_manifest = [SessionFiles |-> <<>>, Images |-> <<>>]
    /\ bidsCandidates = [k \in {} |-> <<>>]
    /\ bpc = "off"
    /\ bi = 1
    /\ argv = <<>>
    /\ parsed = <<>>
    /\ base_directory \in OutputRoots
    /\ \E nv \in 1..MaxSessions :
          IF imaging_format = "minc"
          THEN \E nf \in 1..MaxFiles :
                  plan = MincPlan(base_directory, "1200001",
                                  FirstOf(VisitNames, nv),
                                  FirstOf(ImageNames, nf))
          ELSE \E nc \in 0..MaxImages :
                  plan = BidsPlan(base_directory, "1200001",
                                  FirstOf(VisitNames, nv),
                                  FirstOf(CategoryNames, nc))
    /\ li = 1
    /\ lpc = "run"
    \* base_directory is there, and so are "/" and the working directory.
    /\ made = WithParents(Resolve(base_directory)) \cup {Resolve(<<>>)}
    /\ opened = {}

\* The process function goes to its next call, or returns.
LayoutAdvance ==
    /\ li' = li + 1
    /\ lpc' = IF li = Len(plan) THEN "done" ELSE "run"

\* if not os.path.exists(p): os.makedirs(p)
LayoutMakedirs ==
    /\ lpc = "run"
    /\ plan[li].op = "makedirs"
    /\ made' = made \cup WithParents(Resolve(plan[li].path))
    /\ LayoutAdvance
    /\ UNCHANGED <<argv, parsed, base_directory, plan, opened>>
    /\ UNCHANGED <<fetchVars, mincVars, runVars, bidsVars>>

\* open(p, "w") of candidate.json / session.json, and open(
\* download_location + filename, "w+b") of get_file: IOError when the
\* directory is not there.
LayoutWrite(op) ==
    /\ lpc = "run"
    /\ plan[li].op = op
    /\ IF Parent(Resolve(plan[li].path)) \in made
       THEN /\ opened' = opened \cup {Resolve(plan[li].path)}
            /\ LayoutAdvance
       ELSE /\ lpc' = "raised"
            /\ UNCHANGED <<opened, li>>
    /\ UNCHANGED <<argv, parsed, base_directory, plan, made>>
    /\ UNCHANGED <<fetchVars, mincVars, runVars, bidsVars>>
LayoutOpen == LayoutWrite("open")
LayoutGetFile == LayoutWrite("get_file")

NextLayout ==
    \/ LayoutMakedirs
    \/ LayoutOpen
    \/ LayoutGetFile

SpecLayout == InitLayout /\ [][NextLayout]_vars

\* The get_file calls the process function has come to.
FetchesReached ==
    {k \in 1..Len(plan) : plan[k].op = "get_file"
                            /\ (k <= li \/ lpc = "done")}
\* An os.makedirs before the k-th call made the directory the call
\* downloads to.
DestEnsured(k) ==
    \E j \in 1..(k - 1) :
       /\ plan[j].op = "makedirs"
       /\ Resolve(plan[j].path) = Resolve(plan[k].dest)

\* C24: whatever the value of -o and in both formats, every get_file of a
\* process function downloads to a directory the function made with
\* os.makedirs before (CandID/visit/ in the minc format, sub-CandID/
\* ses-visit/ and sub-CandID/ses-visit/folder/ in the bids format), and
\* the file is opened.
C24_DestinationsExist ==
    /\ lpc # "raised"
    /\ \A k \in FetchesReached : DestEnsured(k)

\* -o ends with "/".
TrailingSlash == base_directory # <<>> /\ base_directory[Len(base_directory)] = "/"
\* With a base_directory that ends with "/", as the help of -o asks for,
\* the download_location of every get_file is a directory made before,
\* and without it no get_file of the process function opens its file.
LayoutNeedsTrailingSlash ==
    /\ TrailingSlash => C24_DestinationsExist
    /\ (~TrailingSlash /\ lpc \in {"raised", "done"})
          => /\ lpc = "raised"
             /\ plan[li].op = "get_file"
             /\ \A k \in 1..(li - 1) : plan[k].op # "get_file"


(***************************************************************************)
(* The end of the run                                                      *)
(***************************************************************************)
\* The script has printed the summary with as many candidates completed
\* as were given to the pool, and has exited with code 0.
DoneWithSummary ==
    /\ mainPc = "exit" /\ exitCode = <<0>>
    /\ summary # <<>>
    /\ summary[1].completed = Len(candidates)
\* A process function is in a process_api_get that never gets an expected
\* answer.
SomeStalled == \E k \in Tasks : job[k] = "stalled"
\* A process function raised an exception.
SomeRaised == \E k \in Tasks : job[k] = "raised"

\* C25: when the login succeeds, the filter (if any) keeps a candidate and
\* every GET gets an expected answer in the end, the script comes to its
\* final message with completed equal to the number of candidates given to
\* the pool and exits with code 0; only a request that never gets an
\* expected answer keeps the run from ending.
C25_RunTerminates ==
    (login = "200" /\ ~NoMatch) ~> (DoneWithSummary \/ SomeStalled)

\* What the script does: the run ends that way unless a process function
\* raised, and then it ends with the traceback and no summary.
RunEndsUnlessRaised ==
    /\ (login = "200" /\ ~NoMatch) ~> (DoneWithSummary \/ SomeStalled \/ SomeRaised)
    /\ [](SomeRaised => ~DoneWithSummary)

=============================================================================
